---- MODULE Spec2Model ----
(***************************************************************************)
(* Smart-routing layer of ethereum-mcp: the circuit breaker registry, the  *)
(* fallback executor and the routed operations of src/src/router/index.ts, *)
(* together with the adapter state the router reads (jsonrpc node URL and  *)
(* chain id, Etherscan API key and default chain).                         *)
(*                                                                         *)
(* The runtime is single-threaded and cooperative: a routed call runs      *)
(* without interruption from one await to the next, so every action below  *)
(* is the code between two suspension points of one logical call.          *)
(***************************************************************************)
EXTENDS Integers, Sequences, FiniteSets, TLC

\* ---------------------------------------------------------------------
\* Program constants
\* ---------------------------------------------------------------------
FAILURE_THRESHOLD == 3
RECOVERY_TIME == 60 * 1000

\* ---------------------------------------------------------------------
\* Bounds of the model
\* ---------------------------------------------------------------------
\* number of call slots, i.e. routed calls that may be in flight together
NumCalls == 2
\* total number of routed calls started in one behaviour
MaxStarts == 5
\* number of setNodeUrl calls that may overlap, and their total number
NumSetters == 2
MaxSets == 2
\* routed calls started in one behaviour of SpecConfig
MaxConfigStarts == 2
\* routed calls started in one behaviour of SpecShared
MaxSharedStarts == 4
\* routed calls started in one behaviour of SpecPrice
MaxPriceStarts == 4
\* checkHealth calls and routed calls started in one behaviour of SpecHealth
MaxHealthStarts == 2
MaxHealthCalls == 3
\* compare_eth_price_sources calls and routed calls started in one
\* behaviour of SpecCompare
MaxCompareStarts == 2
MaxCompareCalls == 3
\* routed calls started in one behaviour of SpecLive
MaxLiveStarts == 4
\* concurrent cachedFetch callers, and cachedFetch calls started in one
\* behaviour of SpecRpc and of SpecFetch
NumFetchers == 2
MaxRpcStarts == 3
MaxFetchStarts == 3
\* Cache method calls in one behaviour of SpecCache
MaxCacheOps == 4
\* concurrent waitForSlot callers, waitForSlot calls started, the largest
\* maxRequests, the windowMs and how far the clock may advance (ms) in one
\* behaviour of SpecLimiter
NumWaiters == 2
MaxLimiterStarts == 4
MaxLimit == 2
LimiterWindow == 200
MaxLimiterElapsed == 400
\* Date.now() when the process starts, and how far the clock may advance
StartTime == 100000
MaxElapsed == 60001
\* the clock advances by one of these amounts (ms): a full recovery time,
\* or one millisecond more
Deltas == {RECOVERY_TIME, RECOVERY_TIME + 1}

Calls == 1..NumCalls
Fetchers == 1..NumFetchers
Waiters == 1..NumWaiters
Setters == 1..NumSetters

\* the elements of a sequence
Range(seq) == {seq[k] : k \in 1..Len(seq)}

VARIABLES
  circuitBreakers,  \* Map<string, CircuitState> of the router
  calls,            \* the frame of executeWithFallback in each call slot
  passes,           \* history: per provider, isCircuitOpen answers "false"
                    \* given to a tripped breaker since its last recorded outcome
  twin,             \* shadow run in which every validator rejection is a throw
  now,              \* Date.now()
  started,          \* number of routed calls started so far
  nodeUrl,          \* jsonrpc adapter: nodeUrl
  nodeChainId,      \* jsonrpc adapter: nodeChainId ("" stands for null)
  etherscanApiKey,  \* etherscan adapter: etherscanApiKey
  defaultChainId,   \* etherscan adapter: defaultChainId
  setter,           \* the frame of setNodeUrl in each setter slot
  sets,             \* number of setNodeUrl calls started so far
  health,           \* the frame of checkHealth
  healthStarts,     \* number of checkHealth calls started so far
  cache,            \* apiCache: key -> expiry time of the entry
  down,             \* the upstream services that are unreachable now
  compare,          \* the frame of the compare_eth_price_sources tool
  compareStarts,    \* number of compare_eth_price_sources calls started so far
  store,            \* a Cache: the entries of its Map, in insertion order
  maxSize,          \* the maxSize of that Cache
  got,              \* history: the last Cache operation and what it returned
  cacheOps,         \* number of Cache method calls so far
  fetches,          \* the frame of cachedFetch of each caller
  fetchStarts,      \* number of cachedFetch calls started so far
  requests,         \* a RateLimiter: requests, the recorded times
  maxRequests,      \* its maxRequests
  windowMs,         \* its windowMs
  waiters,          \* the frame of waitForSlot of each caller
  admitted,         \* history: every time recordRequest has recorded
  limiterStarts     \* number of waitForSlot calls started so far

vars == <<circuitBreakers, calls, passes, twin, now, started,
          nodeUrl, nodeChainId, etherscanApiKey, defaultChainId, setter, sets,
          health, healthStarts, cache, down, compare, compareStarts,
          store, maxSize, got, cacheOps, fetches, fetchStarts,
          requests, maxRequests, windowMs, waiters, admitted, limiterStarts>>

compareVars == <<compare, compareStarts>>
healthVars == <<health, healthStarts, cache, down>>
cacheVars == <<store, maxSize, got, cacheOps, fetches, fetchStarts>>
limiterVars == <<requests, maxRequests, windowMs, waiters, admitted, limiterStarts>>
toolVars == <<healthVars, compareVars, cacheVars, limiterVars>>

routerVars == <<circuitBreakers, calls, passes, twin, started>>
adapterVars == <<nodeUrl, nodeChainId, etherscanApiKey, defaultChainId, setter, sets>>

\* ---------------------------------------------------------------------
\* Circuit breaker (router/index.ts 22-73)
\* ---------------------------------------------------------------------
CircuitState == [failures |-> 0, lastFailure |-> 0, isOpen |-> FALSE]

\* the map after getCircuit(source): the entry is created lazily
getCircuit(cb, source) ==
  IF source \in DOMAIN cb THEN cb ELSE cb @@ (source :> CircuitState)

\* mutant: the failure counter is not reset
recordSuccessKeepsCount(cb, source) ==
  LET m == getCircuit(cb, source)
  IN [m EXCEPT ![source].isOpen = FALSE]

recordSuccess(cb, source) ==
  LET m == getCircuit(cb, source)
  IN [m EXCEPT ![source].failures = 0, ![source].isOpen = FALSE]

\* mutant: a failure recorded on a tripped breaker does not restart the
\* recovery time
recordFailureKeepsTime(cb, source, t) ==
  LET m == getCircuit(cb, source)
      f == m[source].failures + 1
  IN [m EXCEPT ![source] = [failures |-> f,
                            lastFailure |-> IF f > FAILURE_THRESHOLD
                                            THEN @.lastFailure ELSE t,
                            isOpen |-> IF f >= FAILURE_THRESHOLD THEN TRUE ELSE @.isOpen]]

\* mutant: of two failures recorded at the same time the second
\* increment is lost
recordFailureLost(cb, source, t) ==
  LET m == getCircuit(cb, source)
      f == IF m[source].lastFailure = t THEN m[source].failures
           ELSE m[source].failures + 1
  IN [m EXCEPT ![source] = [failures |-> f,
                            lastFailure |-> t,
                            isOpen |-> IF f >= FAILURE_THRESHOLD THEN TRUE ELSE @.isOpen]]

recordFailure(cb, source, t) ==
  LET m == getCircuit(cb, source)
      f == m[source].failures + 1
  IN [m EXCEPT ![source] = [failures |-> f,
                            lastFailure |-> t,
                            isOpen |-> IF f >= FAILURE_THRESHOLD THEN TRUE ELSE @.isOpen]]

\* mutant: the recovery time counts as elapsed one millisecond early
isCircuitOpenEarly(cb, source, t) ==
  LET m == getCircuit(cb, source)
  IN IF ~m[source].isOpen THEN [open |-> FALSE, cb |-> m]
     ELSE IF t - m[source].lastFailure >= RECOVERY_TIME
          THEN [open |-> FALSE, cb |-> [m EXCEPT ![source].isOpen = FALSE]]
          ELSE [open |-> TRUE, cb |-> m]

\* isCircuitOpen both answers and (after the recovery time) clears isOpen
isCircuitOpen(cb, source, t) ==
  LET m == getCircuit(cb, source)
  IN IF ~m[source].isOpen THEN [open |-> FALSE, cb |-> m]
     ELSE IF t - m[source].lastFailure > RECOVERY_TIME
          THEN [open |-> FALSE, cb |-> [m EXCEPT ![source].isOpen = FALSE]]
          ELSE [open |-> TRUE, cb |-> m]

getCircuitStatus(cb) ==
  [s \in DOMAIN cb |-> [isOpen |-> cb[s].isOpen, failures |-> cb[s].failures]]

\* ---------------------------------------------------------------------
\* Fallback executor (router/index.ts 79-122)
\* ---------------------------------------------------------------------
\* error.message || String(error) for a thrown Error
errorText(message) == IF message = "" THEN "Error" ELSE message

\* mutant: only the last provider's reason is reported
errorSummaryLast(errors) ==
  IF errors = << >> THEN ""
  ELSE errors[Len(errors)].source \o ": " \o errors[Len(errors)].error

\* errors.map((e) => `${e.source}: ${e.error}`).join('; ')
RECURSIVE errorSummary(_)
errorSummary(errors) ==
  IF errors = << >> THEN ""
  ELSE IF Len(errors) = 1 THEN errors[1].source \o ": " \o errors[1].error
  ELSE errors[1].source \o ": " \o errors[1].error \o "; " \o errorSummary(Tail(errors))

\* A resolved value o is [kind |-> "value", value |-> n, js |-> t]: the
\* number n when t = "number"; NaN or undefined (n = 0) otherwise.
\* x > k and x >= k in JavaScript: false when x is NaN or undefined
jsGreater(o, k) == o.js = "number" /\ o.value > k

jsGreaterEq(o, k) == o.js = "number" /\ o.value >= k

\* !x in JavaScript
falsy(o) == o.js # "number" \/ o.value = 0

\* mutant: a price of 0 is accepted
validateNonNegative(op, o) ==
  CASE op \in {"getEthPrice", "getTokenPrice"} -> jsGreaterEq(o, 0)
    [] op \in {"getL2Tvl", "getBlobStats"} -> jsGreaterEq(o, 0)
    [] OTHER -> TRUE

\* mutant: the validator only checks that a price is present
validateDefined(op, o) ==
  CASE op \in {"getEthPrice", "getTokenPrice"} -> o.js # "undefined"
    [] op \in {"getL2Tvl", "getBlobStats"} -> jsGreaterEq(o, 0)
    [] OTHER -> TRUE

\* options.validate, by the routed operation that supplies it
validate(op, o) ==
  CASE op \in {"getEthPrice", "getTokenPrice"} -> jsGreater(o, 0)
    [] op \in {"getL2Tvl", "getBlobStats"} -> jsGreaterEq(o, 0)
    [] OTHER -> TRUE

NoRequest == [chain |-> "", url |-> "", chainId |-> "", key |-> ""]

\* The frame of one executeWithFallback call.  sources, i, errors are the
\* locals of the function; result, source, fallbacksUsed the returned object;
\* message the thrown error's message.  trace is the history of what the
\* call did, req the arguments and configuration it was started with.
IdleCall ==
  [pc |-> "idle", op |-> "", sources |-> << >>, i |-> 0, errors |-> << >>,
   result |-> 0, source |-> "", fallbacksUsed |-> 0, message |-> "",
   trace |-> << >>, req |-> NoRequest]

\* history: one step of a call on the provider at index idx.  The event of
\* a recorded success also keeps the provider's circuit state from just
\* before the success (failures, wasOpen).
Event(ev, idx, info, value) ==
  [ev |-> ev, idx |-> idx, info |-> info, value |-> value,
   failures |-> 0, wasOpen |-> FALSE]

Success(idx, value, cb, name) ==
  LET before == getCircuit(cb, name)[name]
  IN [ev |-> "ok", idx |-> idx, info |-> "", value |-> value,
      failures |-> before.failures, wasOpen |-> before.isOpen]

\* mutants of the loop increment: the same provider again, one provider skipped
incStay(i) == i

incTwo(i) == i + 2

\* mutant: the loop steps back to the provider before, once past the first
incBack(i) == IF i > 0 THEN i - 1 ELSE i + 1

\* the i++ of the for loop
inc(i) == i + 1

\* A "world" is the state the executor works on:
\*   [cb |-> circuit breaker map, calls |-> call frames, passes |-> history]
bump(w, name) ==
  IF name \in DOMAIN w.cb /\ w.cb[name].failures >= FAILURE_THRESHOLD
  THEN [w.passes EXCEPT ![name] = @ + 1] ELSE w.passes

\* The for loop of executeWithFallback from its current index i up to the
\* next await (pc = "await") or to the final throw (pc = "threw").
RECURSIVE loop(_, _, _)
loop(w, c, t) ==
  LET call == w.calls[c]
  IN IF call.i >= Len(call.sources)
     THEN [w EXCEPT !.calls[c].pc = "threw",
                    !.calls[c].message = "All sources failed: " \o errorSummary(call.errors)]
     ELSE
       LET name == call.sources[call.i + 1]
           q == isCircuitOpen(w.cb, name, t)
       IN IF q.open
          THEN loop([w EXCEPT !.cb = q.cb,
                              !.calls[c].errors =
                                 Append(@, [source |-> name, error |-> "Circuit breaker open"]),
                              !.calls[c].trace =
                                 Append(@, Event("skip", call.i, "", 0)),
                              !.calls[c].i = inc(@)], c, t)
          ELSE [w EXCEPT !.cb = q.cb,
                         !.passes = bump(w, name),
                         !.calls[c].pc = "await",
                         !.calls[c].trace =
                            Append(@, Event("dispatch", call.i, "", 0))]

\* executeWithFallback(options) up to its first suspension point
executeWithFallback(w, c, op, sources, req, t) ==
  loop([w EXCEPT !.calls[c] =
          [IdleCall EXCEPT !.op = op, !.sources = sources, !.req = req]], c, t)

\* the try block after `await fn()` resolved with an accepted value:
\* recordSuccess and return
succeed(w, c, value) ==
  LET call == w.calls[c]
      name == call.sources[call.i + 1]
  IN [w EXCEPT !.cb = recordSuccess(w.cb, name),
               !.passes[name] = 0,
               !.calls[c].pc = "returned",
               !.calls[c].result = value,
               !.calls[c].source = name,
               !.calls[c].fallbacksUsed = call.i,
               !.calls[c].trace = Append(@, Success(call.i, value, w.cb, name))]

\* the catch block (recordFailure, errors.push) and the rest of the loop
catch(w, c, ev, message, t) ==
  LET call == w.calls[c]
      name == call.sources[call.i + 1]
  IN loop([w EXCEPT !.cb = recordFailure(w.cb, name, t),
                    !.passes[name] = 0,
                    !.calls[c].errors =
                       Append(@, [source |-> name, error |-> errorText(message)]),
                    !.calls[c].trace = Append(@, Event(ev, call.i, message, 0)),
                    !.calls[c].i = inc(@)], c, t)

\* mutant: a validator rejection moves on to the next provider without
\* recording a failure
resumeRejectUncounted(w, c, o, t) ==
  IF o.kind = "throw" THEN catch(w, c, "throw", o.message, t)
  ELSE IF validate(w.calls[c].op, o) THEN succeed(w, c, o.value)
  ELSE LET call == w.calls[c]
       IN loop([w EXCEPT !.calls[c].errors =
                            Append(@, [source |-> call.sources[call.i + 1],
                                       error |-> "Validation failed"]),
                         !.calls[c].trace =
                            Append(@, Event("reject", call.i, "Validation failed", 0)),
                         !.calls[c].i = inc(@)], c, t)

\* The continuation of executeWithFallback after `await fn()` settled with
\* outcome o: [kind |-> "value", value |-> v] or [kind |-> "throw", message |-> m].
resume(w, c, o, t) ==
  IF o.kind = "throw" THEN catch(w, c, "throw", o.message, t)
  ELSE IF validate(w.calls[c].op, o) THEN succeed(w, c, o.value)
  ELSE catch(w, c, "reject", "Validation failed", t)

\* ---------------------------------------------------------------------
\* Provider thunks of the routed operations
\* ---------------------------------------------------------------------
Value(v) == [kind |-> "value", value |-> v, js |-> "number"]

NaNValue == [kind |-> "value", value |-> 0, js |-> "NaN"]

UndefinedValue == [kind |-> "value", value |-> 0, js |-> "undefined"]

Throw(m) == [kind |-> "throw", message |-> m]

\* what an adapter call can settle with: a thrown error or a number
RawOutcomes == {Throw("timeout"), Value(0), Value(100)}

\* a price field of an adapter response: also negative, NaN or missing
PriceOutcomes == RawOutcomes \cup {Value(-5), NaNValue, UndefinedValue}

\* the same for an on-chain adapter call (no validator looks at the value)
OnChainOutcomes == {Throw("timeout"), Value(100)}

NoSourceMessage ==
  "No data source configured. Set an Etherscan API key (set_etherscan_key) or connect a JSON-RPC node (set_node_url)."

\* the `fn` of a source: the adapter's response mapped by the inline normalizer
fn(op, name, raw) ==
  IF name = "No source" THEN Throw(NoSourceMessage)
  ELSE IF raw.kind = "throw" THEN raw
  ELSE CASE op = "getEthPrice" /\ name = "defillama" ->
              IF falsy(raw) THEN Throw("No price data") ELSE raw
         [] op = "getTokenPrice" ->
              IF falsy(raw) THEN Throw("Token not found") ELSE raw
         [] op = "getL2Tvl" ->
              IF falsy(raw) THEN Throw("Chain not found") ELSE raw
         [] op = "getBlobStats" /\ name = "blobscan" ->
              IF falsy(raw) THEN Value(0) ELSE raw
         [] OTHER -> raw

\* the same outcome with a validator rejection replaced by a thrown error
asThrow(op, o) ==
  IF o.kind = "value" /\ ~validate(op, o) THEN Throw("rejected") ELSE o

\* ---------------------------------------------------------------------
\* Price routing (router/index.ts 147-297)
\* ---------------------------------------------------------------------
EthPriceSources == <<"etherscan", "coingecko", "defillama">>

\* tokens as character sequences: a 42-character 0x address, a short 0x
\* string and a name
HexDigits40 == [k \in 1..40 |-> "a"]
Tokens ==
  {<<"0", "x">> \o HexDigits40, <<"0", "x", "a", "b">>, <<"e", "t", "h">>,
   <<"0", "X">> \o HexDigits40, <<"a", "a">> \o HexDigits40,
   <<"0", "x", "a">> \o HexDigits40}

startsWith0x(token) == Len(token) >= 2 /\ token[1] = "0" /\ token[2] = "x"

\* mutant: the length of the string is not looked at
isContractByPrefix(token) == startsWith0x(token)

isContract(token) == startsWith0x(token) /\ Len(token) = 42

TokenPriceSources(token) ==
  IF isContract(token) THEN <<"defillama", "coingecko">>
  ELSE <<"coingecko", "defillama">>

\* ---------------------------------------------------------------------
\* TVL and blob routing (router/index.ts 318-414)
\* ---------------------------------------------------------------------
L2TvlSources == <<"growthepie", "defillama">>

BlobStatsSources == <<"blobscan", "growthepie">>

\* ---------------------------------------------------------------------
\* Etherscan adapter state accessors (unnamed/part_004 237-310)
\* ---------------------------------------------------------------------
SUPPORTED_CHAINS == ("ethereum" :> "1") @@ ("base" :> "8453") @@ ("optimism" :> "10")

\* /^\d+$/.test(s) on the chain strings of the model
IsDigits(s) == s \in {"1", "8453", "10"}

\* s.toLowerCase() on the chain strings of the model
toLowerCase(s) ==
  CASE s = "Base" -> "base"
    [] s = "Ethereum" -> "ethereum"
    [] OTHER -> s

\* getChainId: [ok |-> TRUE, id |-> ...] or a thrown "Unknown chain" error
getChainId(chainNameOrId, default) ==
  IF chainNameOrId = "" THEN [ok |-> TRUE, id |-> default]
  ELSE IF IsDigits(chainNameOrId) THEN [ok |-> TRUE, id |-> chainNameOrId]
  ELSE IF toLowerCase(chainNameOrId) \in DOMAIN SUPPORTED_CHAINS
       THEN [ok |-> TRUE, id |-> SUPPORTED_CHAINS[toLowerCase(chainNameOrId)]]
       ELSE [ok |-> FALSE, id |-> ""]

etherscanIsConfigured(key) == key # ""

jsonrpcIsConfigured(url) == url # ""

\* ---------------------------------------------------------------------
\* On-chain routing (router/index.ts 425-467)
\* ---------------------------------------------------------------------
\* mutant: the node is in the list whatever chain is requested
includeJsonRpcAlways(requestedChain, chainId, default) == TRUE

\* requestedChain = "" stands for an absent (or empty) chain argument,
\* chainId = "" for nodeChainId = null
includeJsonRpc(requestedChain, chainId, default) ==
  IF requestedChain # ""
  THEN LET r == getChainId(requestedChain, default)
       IN IF ~r.ok THEN FALSE
          ELSE ~(chainId # "" /\ r.id # chainId)
  ELSE TRUE

onChainSources(requestedChain, url, chainId, key, default) ==
  LET s1 == IF jsonrpcIsConfigured(url) /\ includeJsonRpc(requestedChain, chainId, default)
            THEN <<"JSON-RPC">> ELSE << >>
      s2 == IF etherscanIsConfigured(key) THEN Append(s1, "Etherscan") ELSE s1
  IN IF Len(s2) = 0 THEN <<"No source">> ELSE s2

RequestedChains == {"", "ethereum", "Base", "8453", "solana"}

\* ---------------------------------------------------------------------
\* jsonrpc adapter: setNodeUrl (adapters/jsonrpc.ts 104-133, 157-199)
\* ---------------------------------------------------------------------
Urls == {"http://a:8545", "http://b:8545", "localhost"}

\* new URL(url) does not throw
validUrl(url) == url \in {"http://a:8545", "http://b:8545"}

\* the eth_chainId answer of the node behind a URL
chainIdHexOf(url) == IF url = "http://a:8545" THEN "0x1" ELSE "0x2105"

\* parseInt(chainIdHex, 16).toString()
parseChainId(hex) ==
  CASE hex = "0x1" -> "1"
    [] hex = "0x2105" -> "8453"
    [] OTHER -> "NaN"

IdleSetter ==
  [pc |-> "idle", url |-> "", previousUrl |-> "", previousChainId |-> "",
   target |-> "", chainIdHex |-> ""]

\* ---------------------------------------------------------------------
\* Response cache (utils/cache.ts 8-80), as far as the probes use it
\* ---------------------------------------------------------------------
TTL_GAS == 15 * 1000
TTL_PRICE == 30 * 1000
TTL_TVL == 60 * 1000
TTL_STATIC == 15 * 60 * 1000

\* Cache.get: [hit |-> found and not expired, cache |-> the map afterwards]
\* (an expired entry is deleted by the lookup)
cacheGet(m, key, t) ==
  IF key \notin DOMAIN m THEN [hit |-> FALSE, cache |-> m]
  ELSE IF t > m[key]
       THEN [hit |-> FALSE, cache |-> [k \in DOMAIN m \ {key} |-> m[k]]]
       ELSE [hit |-> TRUE, cache |-> m]

\* Cache.set with expiry Date.now() + ttlMs (the cache is far from full)
cacheSet(m, key, ttl, t) ==
  [k \in DOMAIN m \cup {key} |-> IF k = key THEN t + ttl ELSE m[k]]

\* ---------------------------------------------------------------------
\* The Cache class and cachedFetch (utils/cache.ts 8-80)
\* ---------------------------------------------------------------------
\* apiCache = new Cache(200)
API_CACHE_SIZE == 200

\* JavaScript values a fetcher can resolve to, next to numbers, null and
\* undefined: false, the empty string and an object (a response body)
FalseValue == [kind |-> "value", value |-> 0, js |-> "boolean"]
EmptyString == [kind |-> "value", value |-> 0, js |-> "string"]
ObjectValue(id) == [kind |-> "value", value |-> id, js |-> "object"]

\* the truthiness test of `if (cached)`: numbers other than 0 and NaN,
\* and objects, are truthy (value is the length of a string and 0 for false)
truthy(o) ==
  CASE o.js \in {"number", "boolean", "string"} -> o.value # 0
    [] o.js = "object" -> TRUE
    [] OTHER -> FALSE

\* Map.get: the position of the key in the Map, 0 if it is absent
mapIndex(m, key) ==
  IF \E k \in 1..Len(m) : m[k].key = key
  THEN CHOOSE k \in 1..Len(m) : m[k].key = key
  ELSE 0

\* Map.delete
mapDelete(m, key) == SelectSeq(m, LAMBDA e : e.key # key)

\* Map.set: an existing key keeps its position, a new key goes to the end
mapSet(m, key, value, expiry) ==
  LET entry == [key |-> key, value |-> value, expiry |-> expiry]
  IN IF mapIndex(m, key) # 0 THEN [m EXCEPT ![mapIndex(m, key)] = entry]
     ELSE Append(m, entry)

\* Cache.get: [value |-> what it returns, cache |-> the Map afterwards]
Cache_get(m, key, t) ==
  LET k == mapIndex(m, key)
  IN IF k = 0 THEN [value |-> UndefinedValue, cache |-> m]
     ELSE IF t > m[k].expiry
          THEN [value |-> UndefinedValue, cache |-> mapDelete(m, key)]
          ELSE [value |-> m[k].value, cache |-> Append(mapDelete(m, key), m[k])]

\* Cache.set: the oldest key is deleted when size >= maxSize (and the
\* key is not the empty string, which `if (oldestKey)` takes for absent)
Cache_set(m, size, key, value, ttlMs, t) ==
  LET kept == IF Len(m) >= size /\ Len(m) > 0 /\ m[1].key # "" THEN Tail(m) ELSE m
  IN mapSet(kept, key, value, t + ttlMs)

\* Cache.has: this.get(key) !== undefined
Cache_has(m, key, t) ==
  [value |-> Cache_get(m, key, t).value.js # "undefined",
   cache |-> Cache_get(m, key, t).cache]

\* Cache.clear
Cache_clear(m) == << >>

\* history of the Cache operations: the name, key and time of the last
\* one, what get returned (found: what has returned), the Map before it,
\* and used, the keys of the Map from the least to the most recently
\* inserted or read
NoOp ==
  [op |-> "none", key |-> "", at |-> 0, value |-> UndefinedValue, found |-> FALSE,
   before |-> << >>, used |-> << >>]

\* history: the keys in order of use after `key` was inserted or read
\* (touched) and the Map became m
touch(used, key, touched, m) ==
  LET rest == SelectSeq(used, LAMBDA k : k # key /\ mapIndex(m, k) # 0)
  IN IF touched /\ mapIndex(m, key) # 0 THEN Append(rest, key) ELSE rest

\* The frame of one cachedFetch call.  want identifies the upstream request
\* the caller's arguments stand for and sent the one its fetcher sent
\* (0: not a numbered request, or none sent), hit whether the result
\* came from the cache.
IdleFetch ==
  [pc |-> "idle", key |-> "", ttl |-> 0, noCache |-> FALSE, want |-> 0,
   sent |-> 0, result |-> UndefinedValue, hit |-> FALSE]

\* ---------------------------------------------------------------------
\* jsonrpc adapter: cached calls (adapters/jsonrpc.ts 202-215, 334-433)
\* ---------------------------------------------------------------------
\* estimateGas(to, data, value) and getLogs(address, fromBlock, toBlock,
\* topic0, topic1, topic2, topic3) calls of the model
RpcCallList ==
  <<[method |-> "eth_estimateGas", args |-> <<"0xT", "0x", "0x0">>],
    [method |-> "eth_estimateGas", args |-> <<"0xT", "0x", "0x1">>],
    [method |-> "eth_estimateGas", args |-> <<"0xT", "0x01", "0x0">>],
    [method |-> "eth_getLogs", args |-> <<"0xT", "0", "latest", "", "", "", "">>],
    [method |-> "eth_getLogs", args |-> <<"0xT", "0", "latest", "", "0xaa", "", "">>]>>

RpcCalls == Range(RpcCallList)

\* the cacheKey each function passes, prefixed by cachedRpcCall
rpcCacheKey(call) ==
  "jsonrpc:" \o
    (IF call.method = "eth_estimateGas"
     THEN "estimategas:" \o call.args[1] \o ":" \o call.args[2]
     ELSE "logs:" \o call.args[1] \o ":" \o call.args[2] \o ":" \o call.args[3]
          \o ":" \o call.args[4])

rpcTtl(call) == IF call.method = "eth_estimateGas" THEN TTL_GAS ELSE TTL_TVL

\* the nodes a request can be sent to
NodeList == <<"http://a:8545", "http://b:8545">>

\* the upstream request of a call: the node it is sent to, the method
\* and the params, numbered; 0 when no node is set
RequestId(url, call) ==
  IF url \notin Range(NodeList) THEN 0
  ELSE LET n == CHOOSE k \in 1..Len(NodeList) : NodeList[k] = url
           j == CHOOSE k \in 1..Len(RpcCallList) : RpcCallList[k] = call
       IN (n - 1) * Len(RpcCallList) + j

\* ---------------------------------------------------------------------
\* Health check (router/index.ts 653-708)
\* ---------------------------------------------------------------------
\* the checks array
HealthSources(url) ==
  (IF jsonrpcIsConfigured(url) THEN <<"jsonrpc">> ELSE << >>)
    \o <<"etherscan", "defillama", "coingecko", "growthepie", "blobscan">>

\* cache key and TTL of the adapter function each check calls
ProbeKey(source) ==
  CASE source = "jsonrpc" -> "jsonrpc:blocknumber"
    [] source = "etherscan" -> "etherscan:1:blocknumber"
    [] source = "defillama" -> "defillama:chains"
    [] source = "coingecko" -> "coingecko:global"
    [] source = "growthepie" -> "growthepie:master"
    [] source = "blobscan" -> "blobscan:latest-block"

ProbeTTL(source) ==
  CASE source \in {"jsonrpc", "etherscan"} -> TTL_GAS
    [] source \in {"coingecko", "blobscan"} -> TTL_PRICE
    [] source = "defillama" -> TTL_TVL
    [] source = "growthepie" -> TTL_STATIC

\* The frame of one checkHealth call: checks, the loop index i and results;
\* how[k] is the history of where result k came from: "request" (a request
\* was sent upstream), "cache" (answered by apiCache) or "none" (the
\* adapter threw before sending anything), breaker[k] whether the
\* provider's circuit was open and unreachable[k] whether its upstream
\* service was unreachable when result k was pushed.
IdleHealth ==
  [pc |-> "idle", checks |-> << >>, i |-> 0, results |-> << >>, how |-> << >>,
   breaker |-> << >>, unreachable |-> << >>]

\* history: the breaker flags and the reachability at the results pushed
\* in this step
stamp(h, cb, dn) ==
  [h EXCEPT !.breaker =
     [k \in 1..Len(h.results) |->
        IF k <= Len(@) THEN @[k]
        ELSE /\ h.results[k].source \in DOMAIN cb
             /\ cb[h.results[k].source].isOpen],
            !.unreachable =
     [k \in 1..Len(h.results) |->
        IF k <= Len(@) THEN @[k] ELSE h.results[k].source \in dn]]

\* the try branch: results.push({source, healthy: true, ...})
probeOk(h, via) ==
  [h EXCEPT !.results = Append(@, [source |-> h.checks[h.i + 1], healthy |-> TRUE]),
            !.how = Append(@, via),
            !.i = @ + 1]

\* mutant: a failing probe ends checkHealth with the probe's error
probeFailedThrows(h, via) == [h EXCEPT !.pc = "threw"]

\* the catch branch: results.push({source, healthy: false, error})
probeFailed(h, via) ==
  [h EXCEPT !.results = Append(@, [source |-> h.checks[h.i + 1], healthy |-> FALSE]),
            !.how = Append(@, via),
            !.i = @ + 1]

\* The for loop of checkHealth from index i up to the next request that
\* is really sent (pc = "await") or to the return.  A check answered by
\* the cache, or refused by the adapter before any request, settles
\* without waiting for the network.
RECURSIVE probeLoop(_, _, _, _, _)
probeLoop(h, m, key, url, t) ==
  IF h.pc = "threw" THEN [health |-> h, cache |-> m]
  ELSE IF h.i >= Len(h.checks) THEN [health |-> [h EXCEPT !.pc = "returned"], cache |-> m]
  ELSE LET source == h.checks[h.i + 1]
           g == cacheGet(m, ProbeKey(source), t)
       IN IF g.hit THEN probeLoop(probeOk(h, "cache"), g.cache, key, url, t)
          ELSE IF source = "etherscan" /\ ~etherscanIsConfigured(key)
               THEN probeLoop(probeFailed(h, "none"), g.cache, key, url, t)
          ELSE IF source = "jsonrpc" /\ ~jsonrpcIsConfigured(url)
               THEN probeLoop(probeFailed(h, "none"), g.cache, key, url, t)
          ELSE [health |-> [h EXCEPT !.pc = "await"], cache |-> g.cache]

\* the upstream services whose reachability the model varies
Outages == {"etherscan", "defillama"}

\* ---------------------------------------------------------------------
\* compareEthPrice and the compare_eth_price_sources tool
\* ---------------------------------------------------------------------
\* the providers compareEthPrice asks, in the order of its three blocks
CompareSources == <<"etherscan", "coingecko", "defillama">>

\* what one provider call of compareEthPrice can produce
CompareOutcomes ==
  {Throw("timeout"), Value(0), Value(3000), Value(3006), UndefinedValue}

\* JavaScript null
NullValue == [kind |-> "value", value |-> 0, js |-> "null"]

\* etherscan.getEthPrice: usd: parseFloat(price.ethusd)
parseFloatUsd(o) == IF o.js = "number" THEN o ELSE NaNValue

\* the value of a result entry: data.usd for etherscan, and
\* ethData?.usd || null, coin?.price || null for the other two
compareValue(source, o) ==
  IF source = "etherscan" THEN parseFloatUsd(o)
  ELSE IF falsy(o) THEN NullValue ELSE o

\* results.push({source, value, latencyMs}) of the try branch, or
\* results.push({source, value: null, latencyMs, error: e.message}) of
\* the catch branch; error "" stands for no error property
compareResult(source, o) ==
  IF o.kind = "throw"
  THEN [source |-> source, value |-> NullValue, error |-> o.message]
  ELSE [source |-> source, value |-> compareValue(source, o), error |-> ""]

\* r.value != null
notNull(o) == o.js \notin {"null", "undefined"}

Abs(x) == IF x < 0 THEN -x ELSE x

\* validPrices.reduce((a, b) => a + b, 0)
RECURSIVE reduceSum(_)
reduceSum(prices) ==
  IF prices = << >> THEN 0 ELSE Head(prices).value + reduceSum(Tail(prices))

\* Math.max(...validPrices.map((p) => Math.abs(p - avg))), times the
\* number of prices: |p - sum / n| * n = |n * p - sum|
maxDiff(prices) ==
  LET n == Len(prices)
      sum == reduceSum(prices)
      k == CHOOSE k \in 1..n :
             \A j \in 1..n :
               Abs(n * prices[j].value - sum) <= Abs(n * prices[k].value - sum)
  IN Abs(n * prices[k].value - sum)

\* (num / den).toFixed(3) for num >= 0 and den > 0: the digits before
\* and after the decimal point, rounded to the nearest thousandth
toFixed3(num, den) ==
  LET t == (2 * 1000 * num + den) \div (2 * den)
  IN [js |-> "number", whole |-> t \div 1000, frac |-> t % 1000]

\* what toFixed(3) prints for NaN, and the absence of the variance line
NaNText == [js |-> "NaN", whole |-> 0, frac |-> 0]
NoVariance == [js |-> "none", whole |-> 0, frac |-> 0]

\* mutant: the spread between the highest and the lowest price, relative
\* to the lowest price
diffPctOfSpread(prices) ==
  LET n == Len(prices)
      lo == CHOOSE k \in 1..n : \A j \in 1..n : prices[k].value <= prices[j].value
      hi == CHOOSE k \in 1..n : \A j \in 1..n : prices[k].value >= prices[j].value
  IN IF \E k \in 1..n : prices[k].js = "NaN" THEN NaNText
     ELSE IF prices[lo].value = 0 THEN NaNText
     ELSE toFixed3(100 * (prices[hi].value - prices[lo].value), prices[lo].value)

\* diffPct = ((maxDiff / avg) * 100).toFixed(3); a NaN price, or the
\* average 0 of prices that are all 0, makes the quotient NaN
diffPct(prices) ==
  IF \E k \in 1..Len(prices) : prices[k].js = "NaN" THEN NaNText
  ELSE IF reduceSum(prices) = 0 THEN NaNText
  ELSE toFixed3(100 * maxDiff(prices), reduceSum(prices))

\* validPrices of the tool
validPrices(results) ==
  LET valid == SelectSeq(results, LAMBDA r : notNull(r.value))
  IN [k \in 1..Len(valid) |-> valid[k].value]

\* the "Max variance" line of the tool, printed for two prices or more
maxVarianceLine(results) ==
  IF Len(validPrices(results)) >= 2 THEN diffPct(validPrices(results))
  ELSE NoVariance

\* The frame of one compare_eth_price_sources call: i counts the blocks
\* of compareEthPrice that are done, results is its results array and
\* variance the line printed by the tool; inflight is the history of the
\* provider calls that were made and have not settled yet.
IdleCompare ==
  [pc |-> "idle", i |-> 0, results |-> << >>, inflight |-> {},
   variance |-> NoVariance]

\* ---------------------------------------------------------------------
\* State
\* ---------------------------------------------------------------------
Names == {"etherscan", "coingecko", "defillama", "growthepie", "blobscan",
          "JSON-RPC", "Etherscan", "No source"}

\* the frame of a call that has returned or thrown is gone by the next
\* step of the router (its promise has settled)
live(frames) ==
  [c \in Calls |-> IF frames[c].pc = "await" THEN frames[c] ELSE IdleCall]

World == [cb |-> circuitBreakers, calls |-> live(calls), passes |-> passes]

TwinWorld == [cb |-> twin.cb, calls |-> live(twin.calls), passes |-> passes]

\* ---------------------------------------------------------------------------
\* utils/security.ts: RateLimiter
\* ---------------------------------------------------------------------------
\* coingecko's limiter: new RateLimiter(30, 60 * 1000)
COINGECKO_DEMO_REQUESTS == 30
LIMITER_WINDOW_MS == 60000
\* the delay of the timer waitForSlot sleeps on
SLOT_RETRY_MS == 100

\* canMakeRequest's filter: the recorded times t with now - t < windowMs
recent(reqs, window, t) == SelectSeq(reqs, LAMBDA r : t - r < window)

canMakeRequestInclusive(reqs, max, window, t) == Len(recent(reqs, window, t)) <= max

\* canMakeRequest(): the answer (the filtered list is stored by the caller)
canMakeRequest(reqs, max, window, t) == Len(recent(reqs, window, t)) < max

\* waitForSlot is not running; wake is the time its timer is due
IdleWaiter == [pc |-> "idle", wake |-> 0]

LimiterInit ==
  /\ requests = << >>
  /\ maxRequests = COINGECKO_DEMO_REQUESTS
  /\ windowMs = LIMITER_WINDOW_MS
  /\ waiters = [w \in Waiters |-> IdleWaiter]
  /\ admitted = << >>
  /\ limiterStarts = 0

\* no health check and no comparison yet, an empty cache, every upstream
\* service reachable
ToolInit ==
  /\ health = IdleHealth
  /\ healthStarts = 0
  /\ cache = << >>
  /\ down = {}
  /\ compare = IdleCompare
  /\ compareStarts = 0
  /\ store = << >>
  /\ maxSize = API_CACHE_SIZE
  /\ got = NoOp
  /\ cacheOps = 0
  /\ fetches = [f \in Fetchers |-> IdleFetch]
  /\ fetchStarts = 0
  /\ LimiterInit

Init ==
  /\ circuitBreakers = << >>
  /\ calls = [c \in Calls |-> IdleCall]
  /\ passes = [n \in Names |-> 0]
  /\ twin = [cb |-> << >>, calls |-> [c \in Calls |-> IdleCall]]
  /\ now = StartTime
  /\ started = 0
  /\ nodeUrl = ""
  /\ nodeChainId = ""
  /\ etherscanApiKey = ""
  /\ defaultChainId = "1"
  /\ setter = [s \in Setters |-> IdleSetter]
  /\ sets = 0
  /\ ToolInit

\* process.env.ETH_NODE_URL and process.env.ETHERSCAN_API_KEY may be set
InitOnChain ==
  /\ circuitBreakers = << >>
  /\ calls = [c \in Calls |-> IdleCall]
  /\ passes = [n \in Names |-> 0]
  /\ twin = [cb |-> << >>, calls |-> [c \in Calls |-> IdleCall]]
  /\ now = StartTime
  /\ started = 0
  /\ nodeUrl \in {"", "http://a:8545"}
  /\ nodeChainId = ""
  /\ etherscanApiKey \in {"", "KEY"}
  /\ defaultChainId = "1"
  /\ setter = [s \in Setters |-> IdleSetter]
  /\ sets = 0
  /\ ToolInit

\* ---------------------------------------------------------------------
\* Actions
\* ---------------------------------------------------------------------
\* a routed operation starts with the given provider list; its frame takes
\* the first slot that holds no call in flight
Begin(c, op, sources, req) ==
  /\ calls[c].pc # "await"
  /\ \A c2 \in Calls : c2 < c => calls[c2].pc = "await"
  /\ started < MaxStarts
  /\ started' = started + 1
  /\ LET w == executeWithFallback(World, c, op, sources, req, now)
         tw == executeWithFallback(TwinWorld, c, op, sources, req, now)
     IN /\ circuitBreakers' = w.cb
        /\ calls' = w.calls
        /\ passes' = w.passes
        /\ twin' = [cb |-> tw.cb, calls |-> tw.calls]

getEthPrice(c) ==
  /\ Begin(c, "getEthPrice", EthPriceSources, NoRequest)
  /\ UNCHANGED <<now, adapterVars, toolVars>>

getTokenPrice(c, token) ==
  /\ Begin(c, "getTokenPrice", TokenPriceSources(token), NoRequest)
  /\ UNCHANGED <<now, adapterVars, toolVars>>

getL2Tvl(c) ==
  /\ Begin(c, "getL2Tvl", L2TvlSources, NoRequest)
  /\ UNCHANGED <<now, adapterVars, toolVars>>

getBlobStats(c) ==
  /\ Begin(c, "getBlobStats", BlobStatsSources, NoRequest)
  /\ UNCHANGED <<now, adapterVars, toolVars>>

\* getBalance, getBlock, getTransaction, ...: every on-chain operation
onChainCall(c, chain) ==
  /\ Begin(c, "onChain",
           onChainSources(chain, nodeUrl, nodeChainId, etherscanApiKey, defaultChainId),
           [chain |-> chain, url |-> nodeUrl, chainId |-> nodeChainId,
            key |-> etherscanApiKey])
  /\ UNCHANGED <<now, adapterVars, toolVars>>

\* the provider call awaited by slot c settles with adapter response raw
Settle(c, raw) ==
  /\ calls[c].pc = "await"
  /\ LET call == calls[c]
         o == fn(call.op, call.sources[call.i + 1], raw)
         w == resume(World, c, o, now)
         tw == resume(TwinWorld, c, asThrow(call.op, o), now)
     IN /\ circuitBreakers' = w.cb
        /\ calls' = w.calls
        /\ passes' = w.passes
        /\ twin' = [cb |-> tw.cb, calls |-> tw.calls]
  /\ UNCHANGED <<now, started, adapterVars, toolVars>>

\* time passes
Tick(d) ==
  /\ now + d <= StartTime + MaxElapsed
  /\ now' = now + d
  /\ UNCHANGED <<routerVars, adapterVars, toolVars>>

\* etherscan.setApiKey(key)
setApiKey(key) ==
  /\ etherscanApiKey # key
  /\ etherscanApiKey' = key
  /\ UNCHANGED <<toolVars, routerVars, now, nodeUrl, nodeChainId, defaultChainId, setter, sets>>

\* rollback of setNodeUrl (the catch block)
rollback(s) ==
  /\ nodeUrl' = setter[s].previousUrl
  /\ nodeChainId' = setter[s].previousChainId
  /\ setter' = [setter EXCEPT ![s] = [IdleSetter EXCEPT !.pc = "threw"]]

\* setNodeUrl(url) up to its first await
setNodeUrl(s, url) ==
  /\ setter[s].pc \notin {"chainId", "blockNumber"}
  /\ sets < MaxSets
  /\ sets' = sets + 1
  /\ IF ~validUrl(url)
     THEN /\ setter' = [setter EXCEPT ![s] = [IdleSetter EXCEPT !.pc = "threw"]]
          /\ UNCHANGED <<nodeUrl, nodeChainId>>
     ELSE /\ setter' = [setter EXCEPT ![s] =
                 [pc |-> "chainId", url |-> url, previousUrl |-> nodeUrl,
                  previousChainId |-> nodeChainId, target |-> url, chainIdHex |-> ""]]
          /\ nodeUrl' = url
          /\ UNCHANGED nodeChainId
  /\ UNCHANGED <<toolVars, routerVars, now, etherscanApiKey, defaultChainId>>

\* the rpcCall awaited by setNodeUrl settles
rpcSettle(s, ok) ==
  /\ setter[s].pc \in {"chainId", "blockNumber"}
  /\ IF ~ok THEN rollback(s)
     ELSE IF setter[s].pc = "chainId"
     THEN IF nodeUrl = "" THEN rollback(s)
          ELSE /\ setter' = [setter EXCEPT ![s].pc = "blockNumber",
                                           ![s].chainIdHex = chainIdHexOf(setter[s].target),
                                           ![s].target = nodeUrl]
               /\ UNCHANGED <<nodeUrl, nodeChainId>>
     ELSE /\ nodeChainId' = parseChainId(setter[s].chainIdHex)
          /\ setter' = [setter EXCEPT ![s] = [IdleSetter EXCEPT !.pc = "returned"]]
          /\ UNCHANGED nodeUrl
  /\ UNCHANGED <<toolVars, routerVars, now, etherscanApiKey, defaultChainId, sets>>

\* checkHealth() up to the first request it sends
checkHealth ==
  /\ health.pc # "await"
  /\ healthStarts < MaxHealthStarts
  /\ healthStarts' = healthStarts + 1
  /\ LET r == probeLoop([IdleHealth EXCEPT !.checks = HealthSources(nodeUrl)],
                        cache, etherscanApiKey, nodeUrl, now)
     IN /\ health' = stamp(r.health, circuitBreakers, down)
        /\ cache' = r.cache
  /\ UNCHANGED <<routerVars, adapterVars, limiterVars, cacheVars, compareVars, now, down>>

\* the request sent by the current check settles: the response is stored
\* in the cache, or the request fails because the service is unreachable
healthSettle ==
  /\ health.pc = "await"
  /\ LET source == health.checks[health.i + 1]
         r == IF source \in down
              THEN probeLoop(probeFailed(health, "request"), cache,
                             etherscanApiKey, nodeUrl, now)
              ELSE probeLoop(probeOk(health, "request"),
                             cacheSet(cache, ProbeKey(source), ProbeTTL(source), now),
                             etherscanApiKey, nodeUrl, now)
     IN /\ health' = stamp(r.health, circuitBreakers, down)
        /\ cache' = r.cache
  /\ UNCHANGED <<routerVars, adapterVars, limiterVars, cacheVars, compareVars, now, healthStarts, down>>

\* the tool calls compareEthPrice(), which runs up to its first await:
\* etherscan.getEthPrice() is called
compareEthPrice ==
  /\ compare.pc # "await"
  /\ compareStarts < MaxCompareStarts
  /\ compareStarts' = compareStarts + 1
  /\ compare' = [IdleCompare EXCEPT !.pc = "await",
                                    !.inflight = {CompareSources[1]}]
  /\ UNCHANGED <<routerVars, adapterVars, limiterVars, cacheVars, healthVars, now>>

\* the provider call compareEthPrice waits for settles (the etherscan
\* adapter throws when it has no API key): its result is pushed, and
\* either the next provider is called or compareEthPrice returns and the
\* tool computes the variance line
compareSettle(raw) ==
  /\ compare.pc = "await"
  /\ LET source == CompareSources[compare.i + 1]
         o == IF source = "etherscan" /\ ~etherscanIsConfigured(etherscanApiKey)
              THEN Throw("Need Etherscan API key")
              ELSE raw
         results == Append(compare.results, compareResult(source, o))
     IN compare' =
          IF compare.i + 1 < Len(CompareSources)
          THEN [compare EXCEPT !.i = @ + 1,
                               !.results = results,
                               !.inflight = {CompareSources[compare.i + 2]}]
          ELSE [compare EXCEPT !.pc = "returned",
                               !.i = @ + 1,
                               !.results = results,
                               !.inflight = {},
                               !.variance = maxVarianceLine(results)]
  /\ UNCHANGED <<routerVars, adapterVars, limiterVars, cacheVars, healthVars, now, compareStarts>>

\* cachedFetch(key, ttl, fetcher, noCache) up to its await: the cached
\* value is returned if the cache is read and holds a truthy value,
\* otherwise the fetcher is invoked
cachedFetch(f, key, ttl, noCache, want) ==
  /\ fetches[f].pc # "await"
  /\ LET g == Cache_get(store, key, now)
         frame == [IdleFetch EXCEPT !.key = key, !.ttl = ttl,
                                    !.noCache = noCache, !.want = want]
     IN IF ~noCache /\ truthy(g.value)
        THEN /\ store' = g.cache
             /\ fetches' = [fetches EXCEPT ![f] =
                   [frame EXCEPT !.pc = "returned", !.result = g.value, !.hit = TRUE]]
        ELSE /\ store' = IF noCache THEN store ELSE g.cache
             /\ fetches' = [fetches EXCEPT ![f] =
                   [frame EXCEPT !.pc = "await", !.sent = want]]
  /\ fetchStarts' = fetchStarts + 1
  /\ UNCHANGED <<routerVars, adapterVars, limiterVars, healthVars, compareVars, now, maxSize, got,
                 cacheOps>>

\* the fetcher of a cachedFetch call settles: a result is stored and
\* returned, an error is passed on
fetcherSettle(f, o) ==
  /\ fetches[f].pc = "await"
  /\ IF o.kind = "throw"
     THEN /\ fetches' = [fetches EXCEPT ![f].pc = "threw"]
          /\ UNCHANGED store
     ELSE /\ store' = Cache_set(store, maxSize, fetches[f].key, o, fetches[f].ttl, now)
          /\ fetches' = [fetches EXCEPT ![f].pc = "returned", ![f].result = o]
  /\ UNCHANGED <<routerVars, adapterVars, limiterVars, healthVars, compareVars, now, maxSize, got,
                 cacheOps, fetchStarts>>

\* estimateGas or getLogs of the jsonrpc adapter: cachedRpcCall with the
\* function's cache key; the fetcher is rpcCall, which reads nodeUrl
rpcCached(f, call, noCache) ==
  cachedFetch(f, rpcCacheKey(call), rpcTtl(call), noCache, RequestId(nodeUrl, call))

\* the rpcCall of a cached call settles: the node that was asked answers
\* the request it was sent, or the call fails (it throws when no node is
\* set)
rpcCachedSettle(f, ok) ==
  fetcherSettle(f, IF ok /\ fetches[f].sent # 0
                   THEN ObjectValue(fetches[f].sent) ELSE Throw("rpc"))

\* one call of a Cache method
cacheOp(op, key, value, found, m, touched) ==
  /\ cacheOps < MaxCacheOps
  /\ cacheOps' = cacheOps + 1
  /\ store' = m
  /\ got' = [op |-> op, key |-> key, at |-> now, value |-> value, found |-> found,
             before |-> store, used |-> touch(got.used, key, touched, m)]
  /\ UNCHANGED <<routerVars, adapterVars, limiterVars, healthVars, compareVars, now, maxSize,
                 fetches, fetchStarts>>

get(key) ==
  LET g == Cache_get(store, key, now)
  IN cacheOp("get", key, g.value, FALSE, g.cache, g.value.js # "undefined")

set(key, value, ttlMs) ==
  cacheOp("set", key, UndefinedValue, FALSE,
          Cache_set(store, maxSize, key, value, ttlMs, now), TRUE)

has(key) ==
  LET g == Cache_has(store, key, now)
  IN cacheOp("has", key, UndefinedValue, g.value, g.cache, g.value)

clear ==
  cacheOp("clear", "", UndefinedValue, FALSE, Cache_clear(store), FALSE)

\* an upstream service becomes unreachable, or reachable again
outage(source) ==
  /\ down' = IF source \in down THEN down \ {source} ELSE down \cup {source}
  /\ UNCHANGED <<routerVars, adapterVars, limiterVars, cacheVars, compareVars, now, health, healthStarts, cache>>

\* ---------------------------------------------------------------------
\* Specifications
\* ---------------------------------------------------------------------
\* ETH price routing: concurrent getEthPrice calls
Next ==
  \/ \E c \in Calls : getEthPrice(c)
  \/ \E c \in Calls, raw \in RawOutcomes : Settle(c, raw)
  \/ \E d \in Deltas : Tick(d)

Spec == Init /\ [][Next]_vars

\* token price routing: concurrent getTokenPrice calls
NextToken ==
  \/ \E c \in Calls, token \in Tokens : getTokenPrice(c, token)
  \/ \E c \in Calls, raw \in RawOutcomes : Settle(c, raw)
  \/ \E d \in Deltas : Tick(d)

SpecToken == Init /\ [][NextToken]_vars

\* on-chain routing under the configuration the process started with
NextOnChain ==
  \/ \E c \in Calls, chain \in RequestedChains : onChainCall(c, chain)
  \/ \E c \in Calls, raw \in OnChainOutcomes : Settle(c, raw)
  \/ \E d \in Deltas : Tick(d)

SpecOnChain == InitOnChain /\ [][NextOnChain]_vars

\* on-chain routing while the configuration changes (set_etherscan_key,
\* set_node_url); the on-chain calls here run one after the other
NextConfig ==
  \/ \E chain \in RequestedChains : started < MaxConfigStarts /\ onChainCall(1, chain)
  \/ \E c \in Calls, raw \in OnChainOutcomes : Settle(c, raw)
  \/ \E key \in {"", "KEY"} : setApiKey(key)
  \/ \E s \in Setters, url \in Urls : setNodeUrl(s, url)
  \/ \E s \in Setters, ok \in BOOLEAN : rpcSettle(s, ok)

SpecConfig == InitOnChain /\ [][NextConfig]_vars

\* routed operations of every type, one after the other, sharing the one
\* circuitBreakers map; the Etherscan API key is set, no node is
InitShared ==
  /\ InitOnChain
  /\ nodeUrl = ""
  /\ etherscanApiKey = "KEY"

NextShared ==
  \/ started < MaxSharedStarts /\ getEthPrice(1)
  \/ \E token \in Tokens : started < MaxSharedStarts /\ getTokenPrice(1, token)
  \/ started < MaxSharedStarts /\ getL2Tvl(1)
  \/ started < MaxSharedStarts /\ getBlobStats(1)
  \/ started < MaxSharedStarts /\ onChainCall(1, "")
  \/ \E raw \in RawOutcomes : Settle(1, raw)
  \/ \E d \in Deltas : Tick(d)

SpecShared == InitShared /\ [][NextShared]_vars

\* price routing over every kind of price an adapter response can carry;
\* the calls run one after the other
NextPrice ==
  \/ started < MaxPriceStarts /\ getEthPrice(1)
  \/ \E token \in Tokens : started < MaxPriceStarts /\ getTokenPrice(1, token)
  \/ \E raw \in PriceOutcomes : Settle(1, raw)
  \/ \E d \in Deltas : Tick(d)

SpecPrice == Init /\ [][NextPrice]_vars

\* health checks next to routed price calls whose providers fail (which
\* opens their breakers), while upstream services come and go
NextHealth ==
  \/ started < MaxHealthCalls /\ getEthPrice(1)
  \/ Settle(1, Throw("timeout"))
  \/ checkHealth
  \/ healthSettle
  \/ \E source \in Outages : outage(source)
  \/ \E d \in Deltas : Tick(d)

SpecHealth == InitOnChain /\ [][NextHealth]_vars

\* source comparisons next to routed price calls whose providers fail
\* (which opens their breakers)
NextCompare ==
  \/ started < MaxCompareCalls /\ getEthPrice(1)
  \/ Settle(1, Throw("timeout"))
  \/ compareEthPrice
  \/ \E raw \in CompareOutcomes : compareSettle(raw)

SpecCompare == InitOnChain /\ [][NextCompare]_vars

\* a Cache of maxSize 1 or 2 and its methods, called in any order with
\* three keys while time passes
InitCache ==
  /\ circuitBreakers = << >>
  /\ calls = [c \in Calls |-> IdleCall]
  /\ passes = [n \in Names |-> 0]
  /\ twin = [cb |-> << >>, calls |-> [c \in Calls |-> IdleCall]]
  /\ now = StartTime
  /\ started = 0
  /\ nodeUrl = ""
  /\ nodeChainId = ""
  /\ etherscanApiKey = ""
  /\ defaultChainId = "1"
  /\ setter = [s \in Setters |-> IdleSetter]
  /\ sets = 0
  /\ health = IdleHealth
  /\ healthStarts = 0
  /\ cache = << >>
  /\ down = {}
  /\ compare = IdleCompare
  /\ compareStarts = 0
  /\ store = << >>
  /\ maxSize \in {1, 2}
  /\ got = NoOp
  /\ cacheOps = 0
  /\ fetches = [f \in Fetchers |-> IdleFetch]
  /\ fetchStarts = 0
  /\ LimiterInit

CacheKeys == {"a", "b", "c"}

NextCache ==
  \/ \E key \in CacheKeys : get(key)
  \/ \E key \in CacheKeys, value \in {Value(0), Value(100)} :
       set(key, value, TTL_GAS)
  \/ \E key \in CacheKeys : has(key)
  \/ clear
  \/ \E d \in {TTL_GAS, TTL_GAS + 1} : Tick(d)

SpecCache == InitCache /\ [][NextCache]_vars

\* one turn of waitForSlot's loop, run without a suspension point: the test
\* canMakeRequest() stores the filtered list; when it answers true the loop
\* ends and recordRequest() pushes Date.now(), read a second time and so
\* possibly later by skew; when it answers false the caller sleeps on a timer
slotLoop(w, skew) ==
  LET kept == recent(requests, windowMs, now) IN
  IF canMakeRequest(requests, maxRequests, windowMs, now)
  THEN /\ now + skew <= StartTime + MaxLimiterElapsed
       /\ requests' = Append(kept, now + skew)
       /\ admitted' = Append(admitted, now + skew)
       /\ now' = now + skew
       /\ waiters' = [waiters EXCEPT ![w] = IdleWaiter]
  ELSE /\ skew = 0
       /\ requests' = kept
       /\ waiters' = [waiters EXCEPT ![w] = [pc |-> "sleep", wake |-> now + SLOT_RETRY_MS]]
       /\ UNCHANGED <<admitted, now>>

\* rateLimiter.waitForSlot(), up to its first suspension point or its return
waitForSlot(w, skew) ==
  /\ waiters[w].pc = "idle"
  /\ limiterStarts < MaxLimiterStarts
  /\ limiterStarts' = limiterStarts + 1
  /\ slotLoop(w, skew)
  /\ UNCHANGED <<routerVars, adapterVars, healthVars, compareVars, cacheVars,
                 maxRequests, windowMs>>

\* the timer of a sleeping waitForSlot fires and the loop takes another turn
slotTimer(w, skew) ==
  /\ waiters[w].pc = "sleep"
  /\ now >= waiters[w].wake
  /\ slotLoop(w, skew)
  /\ UNCHANGED <<routerVars, adapterVars, healthVars, compareVars, cacheVars,
                 maxRequests, windowMs, limiterStarts>>

\* time passes while callers wait for a slot
elapse(d) ==
  /\ now + d <= StartTime + MaxLimiterElapsed
  /\ now' = now + d
  /\ UNCHANGED <<routerVars, adapterVars, toolVars>>

\* a RateLimiter(maxRequests, windowMs) of one or two requests per window
\* and its concurrent waitForSlot callers, while time passes
InitLimiter ==
  /\ circuitBreakers = << >>
  /\ calls = [c \in Calls |-> IdleCall]
  /\ passes = [n \in Names |-> 0]
  /\ twin = [cb |-> << >>, calls |-> [c \in Calls |-> IdleCall]]
  /\ now = StartTime
  /\ started = 0
  /\ nodeUrl = ""
  /\ nodeChainId = ""
  /\ etherscanApiKey = ""
  /\ defaultChainId = "1"
  /\ setter = [s \in Setters |-> IdleSetter]
  /\ sets = 0
  /\ health = IdleHealth
  /\ healthStarts = 0
  /\ cache = << >>
  /\ down = {}
  /\ compare = IdleCompare
  /\ compareStarts = 0
  /\ store = << >>
  /\ maxSize = API_CACHE_SIZE
  /\ got = NoOp
  /\ cacheOps = 0
  /\ fetches = [f \in Fetchers |-> IdleFetch]
  /\ fetchStarts = 0
  /\ requests = << >>
  /\ maxRequests \in 1..MaxLimit
  /\ windowMs = LimiterWindow
  /\ waiters = [w \in Waiters |-> IdleWaiter]
  /\ admitted = << >>
  /\ limiterStarts = 0

LimiterDeltas == {SLOT_RETRY_MS - 1, SLOT_RETRY_MS}

NextLimiter ==
  \/ \E w \in Waiters, skew \in {0, 1} : waitForSlot(w, skew)
  \/ \E w \in Waiters, skew \in {0, 1} : slotTimer(w, skew)
  \/ \E d \in LimiterDeltas : elapse(d)

SpecLimiter == InitLimiter /\ [][NextLimiter]_vars

\* cachedFetch callers of two keys with fetchers that resolve to values
\* of every kind or throw, while time passes
FetchKeys == {"coingecko:global", "defillama:chains"}

FetchOutcomes ==
  {Throw("timeout"), Value(0), Value(100), FalseValue, EmptyString, NullValue,
   ObjectValue(1)}

NextFetch ==
  \/ \E f \in Fetchers, key \in FetchKeys, noCache \in BOOLEAN :
       fetchStarts < MaxFetchStarts /\ cachedFetch(f, key, TTL_PRICE, noCache, 0)
  \/ \E f \in Fetchers, o \in FetchOutcomes : fetcherSettle(f, o)
  \/ \E d \in {TTL_PRICE, TTL_PRICE + 1} : Tick(d)

SpecFetch == Init /\ [][NextFetch]_vars

\* concurrent ETH price calls every one of whose provider invocations
\* settles at some time
LiveOutcomes == {Throw("timeout"), Value(100)}

NextLive ==
  \/ \E c \in Calls : started < MaxLiveStarts /\ getEthPrice(c)
  \/ \E c \in Calls, raw \in LiveOutcomes : Settle(c, raw)

\* every provider invocation that is awaited settles at some time
Settles == \A c \in Calls : WF_vars(\E raw \in LiveOutcomes : Settle(c, raw))

SpecLive == Init /\ [][NextLive]_vars /\ Settles

\* cached calls of the jsonrpc adapter, one after the other, while the
\* node is changed with setNodeUrl and time passes
NextRpc ==
  \/ \E call \in RpcCalls, noCache \in BOOLEAN :
       fetchStarts < MaxRpcStarts /\ rpcCached(1, call, noCache)
  \/ \E ok \in BOOLEAN : rpcCachedSettle(1, ok)
  \/ \E url \in Range(NodeList) : setNodeUrl(1, url)
  \/ \E ok \in BOOLEAN : rpcSettle(1, ok)
  \/ \E d \in Deltas : Tick(d)

SpecRpc == InitOnChain /\ [][NextRpc]_vars

\* ---------------------------------------------------------------------
\* Reading a call's history
\* ---------------------------------------------------------------------
\* the events of a call on the provider at index j, and the last of them
EventsAt(call, j) == SelectSeq(call.trace, LAMBDA e : e.idx = j)

LastEvent(call, j) == EventsAt(call, j)[Len(EventsAt(call, j))]

Kind(call, j) == IF EventsAt(call, j) = << >> THEN "none" ELSE LastEvent(call, j).ev

\* how often a call dispatched the invoke function of provider `name`
Dispatches(call, name) ==
  Cardinality({k \in 1..Len(call.trace) :
                 /\ call.trace[k].ev = "dispatch"
                 /\ call.sources[call.trace[k].idx + 1] = name})

\* the indexes a call dispatched, in the order of dispatch
Invoked(call) ==
  LET d == SelectSeq(call.trace, LAMBDA e : e.ev = "dispatch")
  IN [k \in 1..Len(d) |-> d[k].idx]

\* the circuit state of a provider (the initial one if not yet created)
Circuit(name) == getCircuit(circuitBreakers, name)[name]

\* the provider's breaker has tripped and its recovery time has not elapsed
Tripped(name) ==
  /\ Circuit(name).failures >= FAILURE_THRESHOLD
  /\ now - Circuit(name).lastFailure <= RECOVERY_TIME

\* the events a step appended to the history of slot c after the outcome
\* it recorded (the circuit queries of the step)
Fresh(c) ==
  IF calls'[c] = calls[c] THEN << >>
  ELSE IF calls[c].pc = "await"
  THEN SubSeq(calls'[c].trace, Len(calls[c].trace) + 2, Len(calls'[c].trace))
  ELSE calls'[c].trace

\* ---------------------------------------------------------------------
\* C1 -- executeWithFallback returns the value of the first provider in
\* list order that is not skipped and resolves with a validator-accepted
\* value; source is its name and fallbacksUsed its zero-based position,
\* every provider before it having been skipped or having failed.  In the
\* first call of a run each failed provider has one recorded failure.
\* ---------------------------------------------------------------------
C1_FirstAcceptedProvider ==
  \A c \in Calls :
    calls[c].pc = "returned" =>
      LET call == calls[c]
          k == call.fallbacksUsed
      IN /\ k \in 0..(Len(call.sources) - 1)
         /\ call.source = call.sources[k + 1]
         /\ Kind(call, k) = "ok"
         /\ LastEvent(call, k).value = call.result
         /\ call.result > 0
         /\ Len(call.errors) = k
         /\ \A j \in 0..(k - 1) :
              /\ Kind(call, j) \in {"skip", "throw", "reject"}
              /\ call.errors[j + 1].source = call.sources[j + 1]
              /\ started = 1 => /\ Kind(call, j) # "skip"
                                /\ Circuit(call.sources[j + 1]).failures = 1

\* [A throws, B returns price 0, C returns price 100] -> {100, C, 2}
C1_Witness ==
  \E c \in Calls :
    /\ calls[c].pc = "returned"
    /\ started = 1
    /\ calls[c].sources = <<"etherscan", "coingecko", "defillama">>
    /\ Kind(calls[c], 0) = "throw"
    /\ Kind(calls[c], 1) = "reject"
    /\ calls[c].result = 100
    /\ calls[c].source = "defillama"
    /\ calls[c].fallbacksUsed = 2
    /\ Circuit("etherscan").failures = 1
    /\ Circuit("coingecko").failures = 1

\* ---------------------------------------------------------------------
\* C2 -- a provider with 3 or more consecutive recorded failures (no
\* success since) has its circuit open for the 60,000 ms after the last of
\* them, and a routed call that reaches it in that time skips it with the
\* reason 'Circuit breaker open' without dispatching its invoke function;
\* a provider with fewer than 3 consecutive failures is closed and invoked.
\* ---------------------------------------------------------------------
C2_OpenState ==
  \A name \in DOMAIN circuitBreakers :
    /\ Tripped(name) => circuitBreakers[name].isOpen
    /\ circuitBreakers[name].failures < FAILURE_THRESHOLD => ~circuitBreakers[name].isOpen

C2_SkipStep ==
  \A c \in Calls :
    \A k \in 1..Len(Fresh(c)) :
      LET e == Fresh(c)[k]
          name == calls'[c].sources[e.idx + 1]
      IN /\ Tripped(name) =>
              /\ e.ev = "skip"
              /\ calls'[c].errors[e.idx + 1] = [source |-> name, error |-> "Circuit breaker open"]
              /\ Dispatches(calls'[c], name) = 0
         /\ Circuit(name).failures < FAILURE_THRESHOLD => e.ev = "dispatch"

C3_SingleProbeSlot ==
  \A name \in Names : passes[name] <= 1

\* ---------------------------------------------------------------------
\* C4 -- a recorded success leaves the provider with failures = 0 and a
\* closed circuit, whatever the failure count and the circuit were before;
\* an open circuit always has at least 3 failures since the last success.
\* ---------------------------------------------------------------------
C4_SuccessResets ==
  /\ \A c \in Calls :
       calls[c].pc = "returned" =>
         /\ Circuit(calls[c].source).failures = 0
         /\ ~Circuit(calls[c].source).isOpen
  /\ \A name \in DOMAIN circuitBreakers :
       circuitBreakers[name].isOpen => circuitBreakers[name].failures >= FAILURE_THRESHOLD

\* a success recorded while the circuit was open
C4_Witness ==
  \E c \in Calls :
    /\ calls[c].pc = "returned"
    /\ LastEvent(calls[c], calls[c].fallbacksUsed).wasOpen
    /\ LastEvent(calls[c], calls[c].fallbacksUsed).failures >= FAILURE_THRESHOLD
    /\ Circuit(calls[c].source).failures = 0
    /\ ~Circuit(calls[c].source).isOpen

\* ---------------------------------------------------------------------
\* C5 -- when no provider yields a validated success the call throws one
\* error whose message lists, for every provider of the list in list
\* order, '<name>: <reason>' joined by '; ', the reason being the thrown
\* message, 'Validation failed' or 'Circuit breaker open'.
\* ---------------------------------------------------------------------
Reason(e) ==
  CASE e.ev = "skip" -> "Circuit breaker open"
    [] e.ev = "reject" -> "Validation failed"
    [] e.ev = "throw" -> e.info
    [] OTHER -> "?"

RECURSIVE Expected(_, _)
Expected(call, j) ==
  IF j >= Len(call.sources) THEN ""
  ELSE call.sources[j + 1] \o ": " \o Reason(LastEvent(call, j))
         \o (IF j + 1 < Len(call.sources) THEN "; " \o Expected(call, j + 1) ELSE "")

C5_AggregateError ==
  \A c \in Calls :
    calls[c].pc = "threw" =>
      /\ \A j \in 0..(Len(calls[c].sources) - 1) :
           Kind(calls[c], j) \in {"skip", "reject", "throw"}
      /\ calls[c].message = "All sources failed: " \o Expected(calls[c], 0)

C5_Witness ==
  \E c \in Calls :
    /\ calls[c].pc = "threw"
    /\ Kind(calls[c], 0) = "skip"
    /\ Kind(calls[c], 1) = "reject"
    /\ Kind(calls[c], 2) = "throw"
    /\ calls[c].message =
         "All sources failed: etherscan: Circuit breaker open; coingecko: Validation failed; defillama: No price data"

\* ---------------------------------------------------------------------
\* C6 -- a validator rejection is indistinguishable from a thrown error:
\* the run in which every rejected value is a thrown error instead has
\* the same circuit-breaker state (failures, lastFailure, isOpen), invokes
\* the same providers and returns the same source and fallbacksUsed.
\* ---------------------------------------------------------------------
Shape(call) ==
  [pc |-> call.pc, sources |-> call.sources, i |-> call.i, invoked |-> Invoked(call),
   result |-> call.result, source |-> call.source, fallbacksUsed |-> call.fallbacksUsed]

C6_RejectionIsFailure ==
  /\ twin.cb = circuitBreakers
  /\ \A c \in Calls : Shape(twin.calls[c]) = Shape(calls[c])

\* a call that went on after a rejection which the other run saw as a throw
C6_Witness ==
  \E c \in Calls :
    /\ calls[c].pc = "returned"
    /\ Kind(calls[c], 1) = "reject"
    /\ Kind(twin.calls[c], 1) = "throw"
    /\ calls[c].fallbacksUsed = 2
    /\ Circuit("coingecko").failures = FAILURE_THRESHOLD
    /\ Circuit("coingecko").isOpen

\* ---------------------------------------------------------------------
\* C7 -- within one executeWithFallback call every provider of the list
\* is invoked at most once: exactly once if it was reached with a circuit
\* that is not open, never if it was skipped, not yet reached, or behind
\* the provider that succeeded.
\* ---------------------------------------------------------------------
C7_NoRetry ==
  \A c \in Calls :
    LET call == calls[c]
    IN \A j \in 0..(Len(call.sources) - 1) :
         LET n == Dispatches(call, call.sources[j + 1])
         IN /\ n <= 1
            /\ Kind(call, j) \in {"skip", "none"} => n = 0
            /\ Kind(call, j) \in {"dispatch", "throw", "reject", "ok"} => n = 1
            /\ j > call.i => Kind(call, j) = "none"
            /\ (call.pc = "returned" /\ j > call.fallbacksUsed) => n = 0

\* a call that has invoked all three providers, each once
C7_Witness ==
  \E c \in Calls :
    /\ calls[c].pc = "threw"
    /\ Len(calls[c].sources) = 3
    /\ \A j \in 0..2 : /\ Kind(calls[c], j) \in {"throw", "reject"}
                       /\ Dispatches(calls[c], calls[c].sources[j + 1]) = 1

\* ---------------------------------------------------------------------
\* C8 -- providers are attempted in list order and one at a time: the
\* provider at position j is invoked only after every provider before it
\* was skipped or has settled as a failure, at most one invocation of a
\* call is in flight, and nothing is invoked after the first success.
\* ---------------------------------------------------------------------
RECURSIVE InOrder(_, _, _)
\* the events trace[k..] attempt the positions j, j+1, ... one after the other
InOrder(trace, k, j) ==
  IF k > Len(trace) THEN TRUE
  ELSE /\ trace[k].idx = j
       /\ CASE trace[k].ev = "skip" -> InOrder(trace, k + 1, j + 1)
            [] trace[k].ev = "dispatch" ->
                 \/ k = Len(trace)
                 \/ /\ trace[k + 1].idx = j
                    /\ \/ /\ trace[k + 1].ev \in {"throw", "reject"}
                          /\ InOrder(trace, k + 2, j + 1)
                       \/ /\ trace[k + 1].ev = "ok"
                          /\ k + 1 = Len(trace)
            [] OTHER -> FALSE

InFlight(call) ==
  {k \in 1..Len(call.trace) :
     /\ call.trace[k].ev = "dispatch"
     /\ \A m \in (k + 1)..Len(call.trace) : call.trace[m].idx # call.trace[k].idx}

C8_SequentialInOrder ==
  \A c \in Calls :
    /\ InOrder(calls[c].trace, 1, 0)
    /\ Cardinality(InFlight(calls[c])) = (IF calls[c].pc = "await" THEN 1 ELSE 0)
    /\ calls[c].pc = "await" => Kind(calls[c], calls[c].i) = "dispatch"

\* the third provider in flight after a skip and a settled failure
C8_Witness ==
  \E c \in Calls :
    /\ calls[c].pc = "await"
    /\ calls[c].i = 2
    /\ Kind(calls[c], 0) = "skip"
    /\ Kind(calls[c], 1) \in {"throw", "reject"}
    /\ Kind(calls[c], 2) = "dispatch"

\* ---------------------------------------------------------------------
\* C9 -- every on-chain call made while neither the node nor the block
\* explorer is configured fails with the configuration error that names
\* both remedies (Etherscan API key, JSON-RPC node).
\* ---------------------------------------------------------------------
C9_ConfigurationError ==
  \A c \in Calls :
    (calls[c].op = "onChain" /\ calls[c].req.url = "" /\ calls[c].req.key = "") =>
      /\ calls[c].pc # "returned"
      /\ calls[c].pc = "threw" =>
           calls[c].message = "All sources failed: No source: " \o NoSourceMessage

\* ---------------------------------------------------------------------
\* C10 -- on-chain provider list: a configured node that matches the
\* requested chain (or no chain requested) comes first, then Etherscan if
\* configured; a configured node whose recorded chain id differs from the
\* requested chain is left out: never invoked, no failure recorded for it,
\* and nothing but the explorer is tried.
\* ---------------------------------------------------------------------
Matched(req) ==
  /\ req.url # ""
  /\ \/ req.chain = ""
     \/ /\ getChainId(req.chain, defaultChainId).ok
        /\ req.chainId # ""
        /\ getChainId(req.chain, defaultChainId).id = req.chainId

Mismatched(req) ==
  /\ req.url # ""
  /\ req.chain # ""
  /\ getChainId(req.chain, defaultChainId).ok
  /\ req.chainId # ""
  /\ getChainId(req.chain, defaultChainId).id # req.chainId

C10_ListState ==
  \A c \in Calls :
    calls[c].op = "onChain" =>
      LET call == calls[c]
      IN /\ Matched(call.req) =>
              call.sources = IF call.req.key # "" THEN <<"JSON-RPC", "Etherscan">>
                             ELSE <<"JSON-RPC">>
         /\ Mismatched(call.req) =>
              /\ call.sources = IF call.req.key # "" THEN <<"Etherscan">>
                                ELSE <<"No source">>
              /\ Dispatches(call, "JSON-RPC") = 0
              /\ \A k \in 1..Len(call.errors) : call.errors[k].source # "JSON-RPC"

\* a step of a call whose list leaves the node out leaves its circuit alone
C10_NoFailureStep ==
  \A c \in Calls :
    (calls'[c] # calls[c] /\ calls'[c].op = "onChain" /\ Mismatched(calls'[c].req))
      => getCircuit(circuitBreakers', "JSON-RPC")["JSON-RPC"] = Circuit("JSON-RPC")

C10_OnChainSources == []C10_ListState /\ [][C10_NoFailureStep]_vars

\* node on chain 1, Base requested: only Etherscan was tried, and it failed
C10_Witness ==
  \E c \in Calls :
    /\ calls[c].op = "onChain"
    /\ calls[c].req = [chain |-> "Base", url |-> "http://a:8545", chainId |-> "1", key |-> "KEY"]
    /\ calls[c].sources = <<"Etherscan">>
    /\ calls[c].pc = "threw"

\* ---------------------------------------------------------------------
\* C11 -- a call that requests a specific chain while the node URL is set
\* but no chain id is recorded for the node (nodeChainId = null) leaves
\* the node out of its provider list: JSON-RPC is not in the list and is
\* never dispatched.
\* ---------------------------------------------------------------------
C11_UnknownChainExcluded ==
  \A c \in Calls :
    (/\ calls[c].op = "onChain"
     /\ calls[c].req.url # ""
     /\ calls[c].req.chain # ""
     /\ calls[c].req.chainId = "")
      => /\ \A k \in 1..Len(calls[c].sources) : calls[c].sources[k] # "JSON-RPC"
         /\ Dispatches(calls[c], "JSON-RPC") = 0

\* ---------------------------------------------------------------------
\* C12 -- the breaker state is one record per upstream provider, shared
\* by all operation types: a routed call of any operation that reaches a
\* provider whose upstream service has a tripped, open breaker (opened by
\* whatever operation) skips it.
\* ---------------------------------------------------------------------
\* the upstream service behind a source name
Upstream(name) ==
  CASE name \in {"etherscan", "Etherscan"} -> "block explorer"
    [] OTHER -> name

C12_SharedStep ==
  \A c \in Calls :
    \A k \in 1..Len(Fresh(c)) :
      LET e == Fresh(c)[k]
          name == calls'[c].sources[e.idx + 1]
      IN (\E m \in DOMAIN circuitBreakers :
            /\ Upstream(m) = Upstream(name)
            /\ Tripped(m)
            /\ circuitBreakers[m].isOpen) => e.ev = "skip"

C12_SharedBreaker == [][C12_SharedStep]_vars

\* ---------------------------------------------------------------------
\* C13 -- every result returned by getEthPrice or getTokenPrice has
\* price > 0; a provider response whose price is 0, negative, NaN or
\* missing is never returned: the step that receives it records one
\* failure for that provider, adds its errors entry and goes on to the
\* next provider of the list (or throws after the last).
\* ---------------------------------------------------------------------
PriceOps == {"getEthPrice", "getTokenPrice"}

BadPrice(raw) == raw.kind = "value" /\ ~(raw.js = "number" /\ raw.value > 0)

C13_ReturnedPositive ==
  \A c \in Calls :
    (calls[c].op \in PriceOps /\ calls[c].pc = "returned") =>
      /\ calls[c].result > 0
      /\ LastEvent(calls[c], calls[c].fallbacksUsed).value = calls[c].result

C13_BadPriceStep ==
  \A c \in Calls, raw \in PriceOutcomes :
    (calls[c].op \in PriceOps /\ BadPrice(raw) /\ Settle(c, raw)) =>
      LET call == calls[c]
          name == call.sources[call.i + 1]
          after == calls'[c]
      IN /\ getCircuit(circuitBreakers', name)[name].failures = Circuit(name).failures + 1
         /\ getCircuit(circuitBreakers', name)[name].lastFailure = now
         /\ after.pc \in {"await", "threw"}
         /\ after.errors[call.i + 1].source = name
         /\ after.i > call.i
         /\ after.pc = "threw" => after.i = Len(call.sources)
         /\ (call.i + 1 < Len(call.sources)) =>
              Kind(after, call.i + 1) \in {"dispatch", "skip"}

C13_PositivePrice == []C13_ReturnedPositive /\ [][C13_BadPriceStep]_vars

\* negative price, then a missing or zero one, then 100 from the third
C13_Witness ==
  \E c \in Calls :
    /\ calls[c].op = "getEthPrice"
    /\ calls[c].pc = "returned"
    /\ Kind(calls[c], 0) = "reject"
    /\ Kind(calls[c], 1) = "reject"
    /\ calls[c].result = 100
    /\ calls[c].fallbacksUsed = 2
    /\ Circuit("etherscan").failures >= 1
    /\ Circuit("coingecko").failures >= 1

\* ---------------------------------------------------------------------
\* C14 -- getTokenPrice takes its provider order from the token string
\* alone: <<defillama, coingecko>> for a string of 42 characters that
\* starts with '0x', <<coingecko, defillama>> for any other string,
\* whatever the circuit-breaker state and the time; the call then visits
\* the providers in that order, an open circuit being skipped.
\* ---------------------------------------------------------------------
C14_StartStep ==
  \A c \in Calls, token \in Tokens :
    getTokenPrice(c, token) =>
      calls'[c].sources =
        IF Len(token) = 42 /\ SubSeq(token, 1, 2) = <<"0", "x">>
        THEN <<"defillama", "coingecko">>
        ELSE <<"coingecko", "defillama">>

C14_OrderKept ==
  \A c \in Calls :
    calls[c].op = "getTokenPrice" =>
      /\ calls[c].sources \in {<<"defillama", "coingecko">>, <<"coingecko", "defillama">>}
      /\ InOrder(calls[c].trace, 1, 0)

C15_OpenOnlyInWindow ==
  \A name \in DOMAIN circuitBreakers :
    /\ getCircuitStatus(circuitBreakers)[name].isOpen = circuitBreakers[name].isOpen
    /\ getCircuitStatus(circuitBreakers)[name].failures = circuitBreakers[name].failures
    /\ getCircuitStatus(circuitBreakers)[name].isOpen =>
         /\ circuitBreakers[name].failures >= FAILURE_THRESHOLD
         /\ now - circuitBreakers[name].lastFailure <= RECOVERY_TIME

\* ---------------------------------------------------------------------
\* C16 -- checkHealth is independent of the circuit breaker: it probes
\* every provider of its list, in order, also one whose breaker is open;
\* no step of it changes the circuit-breaker table; it never throws, and
\* a failing probe is followed by the remaining probes.
\* ---------------------------------------------------------------------
C16_AllProbed ==
  /\ health.pc \in {"idle", "await", "returned"}
  /\ health.pc # "idle" =>
       /\ health.checks \in
            {<<"jsonrpc", "etherscan", "defillama", "coingecko", "growthepie", "blobscan">>,
             <<"etherscan", "defillama", "coingecko", "growthepie", "blobscan">>}
       /\ Len(health.results) = health.i
       /\ \A k \in 1..Len(health.results) : health.results[k].source = health.checks[k]
  /\ health.pc = "await" => health.i < Len(health.checks)
  /\ health.pc = "returned" => health.i = Len(health.checks)

C16_FrameStep ==
  health' # health =>
    /\ circuitBreakers' = circuitBreakers
    /\ passes' = passes

C16_HealthIndependent == []C16_AllProbed /\ [][C16_FrameStep]_vars

\* a request was sent to etherscan while its breaker was open, it failed,
\* and the remaining providers were probed all the same
C16_Witness ==
  /\ health.pc = "returned"
  /\ \E k \in 1..Len(health.results) :
       /\ health.results[k].source = "etherscan"
       /\ health.breaker[k]
       /\ health.how[k] = "request"
       /\ ~health.results[k].healthy
       /\ health.results[k + 1].healthy
       /\ health.how[k + 1] = "request"
  /\ "etherscan" \in DOMAIN circuitBreakers
  /\ circuitBreakers["etherscan"] = [failures |-> 3, lastFailure |-> StartTime, isOpen |-> TRUE]

\* ---------------------------------------------------------------------
\* C17 -- every checkHealth call sends one real request to each
\* configured provider and reports its reachability at that time: a
\* provider that is unreachable when its result is produced is reported
\* healthy = false, and no request is sent to a provider that is not
\* configured.
\* ---------------------------------------------------------------------
ProbeConfigured(source) ==
  CASE source = "jsonrpc" -> jsonrpcIsConfigured(nodeUrl)
    [] source = "etherscan" -> etherscanIsConfigured(etherscanApiKey)
    [] OTHER -> TRUE

C17_RealProbe ==
  \A k \in 1..Len(health.results) :
    LET source == health.results[k].source
    IN /\ ProbeConfigured(source) => health.how[k] = "request"
       /\ ~ProbeConfigured(source) => health.how[k] # "request"
       /\ health.unreachable[k] => ~health.results[k].healthy

\* ---------------------------------------------------------------------
\* C18 -- compareEthPrice calls the three providers in parallel: while it
\* waits for its first result, the calls to etherscan, coingecko and
\* defillama are all in flight.
\* ---------------------------------------------------------------------
C18_CallsOverlap ==
  compare.pc = "await" /\ compare.results = << >> =>
    compare.inflight = Range(CompareSources)

\* the rest of the claim: a comparison that returned holds one entry per
\* provider, in the order of CompareSources, whatever the earlier
\* providers answered, and no step of a comparison touches a breaker
C18_OneEntryEach ==
  compare.pc = "returned" =>
    /\ Len(compare.results) = Len(CompareSources)
    /\ \A k \in 1..Len(CompareSources) :
         compare.results[k].source = CompareSources[k]

C18_BreakerUntouched ==
  [][compare' # compare => circuitBreakers' = circuitBreakers]_vars

\* ---------------------------------------------------------------------
\* C19 -- the variance line of the source comparison is the maximum
\* percentage deviation from the mean over the providers that returned
\* a value, to three decimals: with fewer than two values there is no
\* line, and with two or more numbers of positive mean the printed
\* percentage is within half a thousandth of |p - mean| / mean * 100 for
\* the price p farthest from the mean, and no price is farther.  For
\* two providers returning 3000 and 3006 (mean 3003) it is 0.100.
\* ---------------------------------------------------------------------
\* the prices of the providers that returned a value
C19_Prices == validPrices(compare.results)

\* thousandths of a percent printed on the variance line
C19_Thousandths == compare.variance.whole * 1000 + compare.variance.frac

\* |p - mean| / mean * 100 is at most half a thousandth away from the
\* printed percentage, as an inequality between integers
C19_Near(p) ==
  LET n == Len(C19_Prices)
      sum == reduceSum(C19_Prices)
      d == 200000 * Abs(n * p - sum)
  IN /\ d < (2 * C19_Thousandths + 1) * sum
     /\ d >= (2 * C19_Thousandths - 1) * sum

C19_Below(p) ==
  LET n == Len(C19_Prices)
      sum == reduceSum(C19_Prices)
  IN 200000 * Abs(n * p - sum) < (2 * C19_Thousandths + 1) * sum

C19_Deviation ==
  compare.pc = "returned" =>
    /\ Len(C19_Prices) < 2 => compare.variance = NoVariance
    /\ /\ Len(C19_Prices) >= 2
       /\ \A k \in 1..Len(C19_Prices) : C19_Prices[k].js = "number"
       /\ reduceSum(C19_Prices) > 0
       => /\ compare.variance.js = "number"
          /\ \A k \in 1..Len(C19_Prices) : C19_Below(C19_Prices[k].value)
          /\ \E k \in 1..Len(C19_Prices) : C19_Near(C19_Prices[k].value)

\* two providers returned 3000 and 3006, the third returned no value
C19_Scenario ==
  /\ compare.pc = "returned"
  /\ Len(C19_Prices) = 2
  /\ {C19_Prices[k] : k \in 1..2} = {Value(3000), Value(3006)}

C19_MaxVariance ==
  /\ C19_Deviation
  /\ C19_Scenario => compare.variance = [js |-> "number", whole |-> 0, frac |-> 100]

C19_Witness ==
  /\ C19_Scenario
  /\ compare.results[1].error # ""
  /\ compare.variance = [js |-> "number", whole |-> 0, frac |-> 100]

\* the statement with the figure 0.2 for the same two providers
C19_VarianceAsStated ==
  /\ C19_Deviation
  /\ C19_Scenario => compare.variance = [js |-> "number", whole |-> 0, frac |-> 200]

\* ---------------------------------------------------------------------
\* C20 -- while a provider's circuit has been opened and no more than
\* 60,000 ms have passed since its lastFailure, every circuit query of a
\* routed call for it answers open (the provider is skipped), also after
\* an invocation dispatched before the circuit opened has settled.
\* ---------------------------------------------------------------------
\* the circuit of the provider is open, or was open when the call that
\* has just returned recorded its success, and the time since
\* lastFailure is within the recovery time
C20_Opened(name) ==
  /\ now - Circuit(name).lastFailure <= RECOVERY_TIME
  /\ \/ Circuit(name).isOpen
     \/ \E c \in Calls :
          /\ calls[c].pc = "returned"
          /\ calls[c].source = name
          /\ LastEvent(calls[c], calls[c].fallbacksUsed).wasOpen

C20_QueryStep ==
  \A c \in Calls :
    \A k \in 1..Len(Fresh(c)) :
      LET e == Fresh(c)[k]
          name == calls'[c].sources[e.idx + 1]
      IN C20_Opened(name) => e.ev = "skip"

C20_OpenThroughWindow == [][C20_QueryStep]_vars

\* ---------------------------------------------------------------------
\* C21 -- after the recovery time of a provider has elapsed, at most one
\* probe invocation is dispatched to it before an outcome is recorded
\* for it: no routed call dispatches the provider while its circuit is
\* half-open (3 or more failures, isOpen cleared by the query that let
\* the first probe through).
\* ---------------------------------------------------------------------
C21_HalfOpen(name) ==
  /\ Circuit(name).failures >= FAILURE_THRESHOLD
  /\ ~Circuit(name).isOpen

C21_ProbeStep ==
  \A c \in Calls :
    \A k \in 1..Len(Fresh(c)) :
      LET e == Fresh(c)[k]
          name == calls'[c].sources[e.idx + 1]
      IN e.ev = "dispatch" => ~C21_HalfOpen(name)

C21_OneProbeInFlight == [][C21_ProbeStep]_vars

\* ---------------------------------------------------------------------
\* C22 -- when the outcome of an invocation of a half-open provider (the
\* probe) is recorded: a failure re-opens the circuit at once, adds one
\* to failures and sets lastFailure to the time of the failure, so that
\* isCircuitOpen on the resulting entry answers open up to 60,000 ms
\* after that time and not later; a success sets failures to 0 and
\* closes the circuit.
\* ---------------------------------------------------------------------
C22_ProbeStep ==
  \A c \in Calls :
    LET name == calls[c].sources[calls[c].i + 1]
        after == circuitBreakers'[name]
    IN /\ calls[c].pc = "await"
       /\ calls'[c] # calls[c]
       /\ C21_HalfOpen(name)
       => IF calls'[c].pc = "returned" /\ calls'[c].fallbacksUsed = calls[c].i
          THEN /\ after.failures = 0
               /\ ~after.isOpen
          ELSE /\ after.isOpen
               /\ after.failures = Circuit(name).failures + 1
               /\ after.lastFailure = now
               /\ isCircuitOpen(circuitBreakers', name, now).open
               /\ isCircuitOpen(circuitBreakers', name, now + RECOVERY_TIME).open
               /\ ~isCircuitOpen(circuitBreakers', name, now + RECOVERY_TIME + 1).open

C23_Recorded(name) ==
  {e \in UNION {IF calls[c].pc = "await" /\ calls'[c] # calls[c]
                THEN {calls'[c].trace[Len(calls[c].trace) + 1]}
                ELSE {} : c \in Calls} :
     \E c \in Calls :
       /\ calls[c].pc = "await"
       /\ calls'[c] # calls[c]
       /\ e = calls'[c].trace[Len(calls[c].trace) + 1]
       /\ calls[c].sources[e.idx + 1] = name}

C23_Failures(cb, name) == IF name \in DOMAIN cb THEN cb[name].failures ELSE 0

C23_CountStep ==
  \A name \in Names :
    LET rec == C23_Recorded(name)
    IN C23_Failures(circuitBreakers', name) =
         IF \E e \in rec : e.ev = "ok" THEN 0
         ELSE C23_Failures(circuitBreakers, name)
              + Cardinality({e \in rec : e.ev \in {"throw", "reject"}})

C23_OpenState ==
  \A name \in DOMAIN circuitBreakers :
    circuitBreakers[name].failures < FAILURE_THRESHOLD => ~circuitBreakers[name].isOpen

C23_NoLostUpdate == []C23_OpenState /\ [][C23_CountStep]_vars

\* two calls in flight together have both recorded a failure of
\* etherscan at the same time, and the counter is 2
C23_Witness ==
  /\ started = 2
  /\ \A c \in Calls :
       /\ calls[c].pc = "await"
       /\ calls[c].sources[1] = "etherscan"
       /\ Kind(calls[c], 0) = "throw"
  /\ Circuit("etherscan").failures = 2
  /\ Circuit("etherscan").lastFailure = StartTime

\* ---------------------------------------------------------------------
\* C24 -- getL2Tvl accepts tvl = 0: when the provider a getL2Tvl call
\* waits for knows the chain and reports tvl = 0, the call returns 0
\* with that provider as source, records no failure and does not go on
\* to the next provider.
\* ---------------------------------------------------------------------
C24_ZeroStep ==
  \A c \in Calls :
    (calls[c].op = "getL2Tvl" /\ Settle(c, Value(0))) =>
      LET call == calls[c]
          name == call.sources[call.i + 1]
      IN /\ calls'[c].pc = "returned"
         /\ calls'[c].result = 0
         /\ calls'[c].source = name
         /\ calls'[c].fallbacksUsed = call.i
         /\ getCircuit(circuitBreakers', name)[name].failures = 0

C24_ZeroTvlAccepted == [][C24_ZeroStep]_vars

\* ---------------------------------------------------------------------
\* C25 -- adapter caching is keyed by the request parameters: a cached
\* call of the jsonrpc adapter that has returned holds the response to
\* the request its own arguments stand for (the node set when it was
\* called, the method and every parameter), never one cached for a
\* different request.
\* ---------------------------------------------------------------------
C25_OwnResponse ==
  \A f \in Fetchers :
    fetches[f].pc = "returned" /\ fetches[f].want # 0 =>
      fetches[f].result = ObjectValue(fetches[f].want)

\* ---------------------------------------------------------------------
\* C26 -- every executeWithFallback call whose awaited invocations all
\* settle ends by returning or by throwing the aggregate error, after at
\* most one pass over its provider list: the positions it visits never
\* go back, each provider is invoked at most once, and there are at most
\* as many invocations as providers.
\* ---------------------------------------------------------------------
C26_OnePass ==
  \A c \in Calls :
    LET call == calls[c]
    IN /\ Len(Invoked(call)) <= Len(call.sources)
       /\ \A j, k \in 1..Len(Invoked(call)) :
            j < k => Invoked(call)[j] < Invoked(call)[k]
       /\ \A j, k \in 1..Len(call.trace) :
            j < k => call.trace[j].idx <= call.trace[k].idx
       /\ call.pc = "threw" => call.i = Len(call.sources)

C26_Terminates ==
  /\ \A c \in Calls : calls[c].pc = "await" ~> calls[c].pc \in {"returned", "threw"}
  /\ []C26_OnePass

\* a call that invoked every provider of its list once and threw
C26_Witness ==
  \E c \in Calls :
    /\ calls[c].pc = "threw"
    /\ Invoked(calls[c]) = <<0, 1, 2>>
    /\ Len(calls[c].errors) = Len(calls[c].sources)

\* ---------------------------------------------------------------------
\* C27 -- (nodeUrl, nodeChainId) stays consistent under setNodeUrl: once
\* every setNodeUrl call has completed, a non-null nodeChainId is the
\* chain id of the node at the stored nodeUrl, and no on-chain call
\* sends its JSON-RPC request to a URL that a setNodeUrl call has set
\* for the time of its validation only.
\* ---------------------------------------------------------------------
C27_Validating(s) == setter[s].pc \in {"chainId", "blockNumber"}

C27_Settled ==
  (\A s \in Setters : ~C27_Validating(s)) =>
    (nodeChainId # "" => nodeChainId = parseChainId(chainIdHexOf(nodeUrl)))

C27_RequestStep ==
  \A c \in Calls :
    \A k \in 1..Len(Fresh(c)) :
      LET e == Fresh(c)[k]
      IN (e.ev = "dispatch" /\ calls'[c].sources[e.idx + 1] = "JSON-RPC") =>
           ~\E s \in Setters :
              /\ C27_Validating(s)
              /\ setter[s].url = nodeUrl
              /\ setter[s].previousUrl # nodeUrl

C27_PairConsistent == []C27_Settled /\ [][C27_RequestStep]_vars

\* ---------------------------------------------------------------------
\* C28 -- a cachedFetch call with noCache = false that finds an entry for
\* its key whose expiry time has not passed returns the stored value
\* without invoking the fetcher, whatever the value (0, false, '' and
\* null included); a fetcher that throws leaves the cache unchanged; a
\* call with noCache = true does not read the cache and stores the fresh
\* result.
\* ---------------------------------------------------------------------
\* the step starts the cachedFetch call of caller f
C28_Starts(f) == fetchStarts' # fetchStarts /\ fetches'[f] # fetches[f]

C28_ReadStep ==
  \A f \in Fetchers :
    LET key == fetches'[f].key
        k == mapIndex(store, key)
    IN (C28_Starts(f) /\ ~fetches'[f].noCache /\ k # 0 /\ now <= store[k].expiry) =>
         /\ fetches'[f].pc = "returned"
         /\ fetches'[f].hit
         /\ fetches'[f].result = store[k].value

C28_NoCacheStep ==
  \A f \in Fetchers :
    (C28_Starts(f) /\ fetches'[f].noCache) =>
      /\ fetches'[f].pc = "await"
      /\ store' = store

C28_SettleStep ==
  \A f \in Fetchers :
    (fetches[f].pc = "await" /\ fetches'[f] # fetches[f]) =>
      IF fetches'[f].pc = "threw" THEN store' = store
      ELSE /\ mapIndex(store', fetches[f].key) # 0
           /\ store'[mapIndex(store', fetches[f].key)].value = fetches'[f].result
           /\ store'[mapIndex(store', fetches[f].key)].expiry = now + fetches[f].ttl

C28_CachedFetch == [][C28_ReadStep /\ C28_NoCacheStep /\ C28_SettleStep]_vars

\* ---------------------------------------------------------------------
\* C29 -- a Cache with maxSize >= 1 holds at most maxSize entries; get
\* returns only what was stored under the key and has not expired; a set
\* removes an entry of another key only when the cache is full and the
\* key being set is not present, and the entry removed is then the least
\* recently inserted or read one.
\* ---------------------------------------------------------------------
C29_Keys(m) == {m[k].key : k \in 1..Len(m)}

C29_Bounded == Len(store) <= maxSize

C29_GetFresh ==
  (got.op = "get" /\ got.value.js # "undefined") =>
    \E k \in 1..Len(got.before) :
      /\ got.before[k].key = got.key
      /\ got.before[k].value = got.value
      /\ got.at <= got.before[k].expiry

C29_SetStep ==
  (got'.op = "set" /\ cacheOps' # cacheOps) =>
    LET evicted == (C29_Keys(store) \ C29_Keys(store')) \ {got'.key}
    IN evicted # {} =>
         /\ Len(store) >= maxSize
         /\ got'.key \notin C29_Keys(store)
         /\ evicted = {Head(got.used)}

C29_LruCache == []C29_Bounded /\ []C29_GetFresh /\ [][C29_SetStep]_vars

\* C30: under every interleaving of concurrent waitForSlot callers, the
\* requests a RateLimiter(maxRequests, windowMs) has recorded within any time
\* window of length windowMs (a window that ends at time t holds the times
\* later than t - windowMs, up to t) never number more than maxRequests: the
\* test and the recording are one step, so two waiters never take the same
\* last slot.  It is enough to look at the windows that end at a recorded
\* time, every other window holds a subset of one of these.
C30_InWindow(t) ==
  Cardinality({k \in 1..Len(admitted) : t - windowMs < admitted[k] /\ admitted[k] <= t})

C30_WindowLimit ==
  \A k \in 1..Len(admitted) : C30_InWindow(admitted[k]) <= maxRequests

\* the window was full with two callers waiting; one of them has been
\* admitted exactly windowMs after the first recorded request, the other one
\* has been refused again and sleeps
C30_Witness ==
  /\ Len(admitted) > maxRequests
  /\ admitted[maxRequests + 1] - admitted[1] = windowMs
  /\ \E w \in Waiters : waiters[w].pc = "sleep" /\ waiters[w].wake > admitted[maxRequests + 1]

====
